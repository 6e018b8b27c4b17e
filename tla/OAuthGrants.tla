----------------------------- MODULE OAuthGrants -----------------------------
(***************************************************************************)
(* The database-backed OAuth authority (oauth/databaseOAuth.ts): local and *)
(* OIDC authorization, code exchange, refresh rotation with replay         *)
(* detection, access-token authentication and sweeping, together with the  *)
(* ways a grant is revoked (accessManagement.ts, and the triggers of       *)
(* persistence/migrations.ts on users and identity_security_state).        *)
(*                                                                         *)
(* Every operation is one transaction.  A local login is verified before   *)
(* the transaction that uses it, so its proof may be stale by then.  One   *)
(* client.  A grant has at most one code and one refresh family, and each  *)
(* refresh token is issued with one access token: both are named by the    *)
(* grant and the sequence.  Raw tokens are never guessed, and a request    *)
(* always names the client, resource and scopes its token was issued for.  *)
(***************************************************************************)
EXTENDS Naturals, FiniteSets, FiniteSetsExt

CONSTANTS
  Users,
  Grants,          \* grant identifiers; also names the intent that leads to it
  Redirects,       \* redirect URIs in the client's metadata
  NoUser, NoRedirect,
  Settings,        \* lifetimes an administrator may set: [access, idle, max]
  CodeTtl,         \* authorizationCodeTtlMs
  MaxCodes,        \* maxAuthorizationCodes
  MaxTokens,       \* maxTokenRecords
  SweepLimit,      \* limit of sweepExpired
  RevocationLimit, \* GLOBAL_ACCESS_REVOCATION_LIMIT
  MaxSequence,     \* bound on rotations of a family
  MaxProofs,       \* bound on local logins under way
  MaxEvents,       \* bound on changes of users, assignments and settings
  MaxTime          \* bound on the clock

ASSUME OAuthGrantsAssumption ==
  /\ NoUser \notin Users /\ NoRedirect \notin Redirects
  /\ Settings \subseteq [access : Nat \ {0}, idle : Nat \ {0}, max : Nat \ {0}]
  /\ \A s \in Settings : s.idle <= s.max
  /\ CodeTtl \in Nat \ {0} /\ SweepLimit \in Nat \ {0}
  /\ {MaxCodes, MaxTokens, RevocationLimit, MaxSequence} \subseteq Nat
  /\ {MaxProofs, MaxEvents, MaxTime} \subseteq Nat

VARIABLES
  now, settings,
  events,       \* changes so far (a bound only)
  metadata,     \* oauth_clients.metadata_digest: the redirect it was stored with
  user,         \* users, their authenticators and whether a service is assigned
  globalEpoch,  \* identity_security_state.global_security_epoch
  proofs,       \* local logins verified and not yet authorized
  accepted,     \* accepted_totp_steps
  intent,       \* oauth_authorization_intents
  code,         \* oauth_authorization_codes, by grant
  grant,        \* oauth_grants
  family,       \* oauth_refresh_families, by grant
  refresh,      \* oauth_refresh_tokens, by grant and sequence
  access        \* oauth_access_tokens, by grant and sequence

identity == <<user, globalEpoch>>
pending  == <<proofs, accepted, intent>>
tokens   == <<code, grant, family, refresh, access>>
vars == <<now, settings, events, metadata, identity, pending, tokens>>

Sequences == 0..MaxSequence
User    == [active : BOOLEAN, local : BOOLEAN, linked : BOOLEAN,
            service : BOOLEAN, epoch : Nat]
Proof   == [user : Users, epoch : Nat, global : Nat, step : Nat]
Short   == [status : {"none", "open", "consumed"}, expires : Nat]
Grant   == [status : {"none", "active", "revoked"}, user : Users \cup {NoUser},
            method : {"local", "oidc"}, epoch : Nat, global : Nat, step : Nat,
            issued : Nat, lastUsed : Nat, absolute : Nat, idle : Nat,
            accessTtl : Nat, idleTtl : Nat]
Family  == [status : {"none", "active", "revoked"}, sequence : Sequences,
            issued : Nat, lastUsed : Nat, absolute : Nat, idle : Nat]
Refresh == [status : {"none", "active", "used", "revoked"}, issued : Nat]
Access  == [status : {"none", "active", "revoked"}, issued : Nat, expires : Nat]

NoShort   == [status |-> "none", expires |-> 0]
NoGrant   == [status |-> "none", user |-> NoUser, method |-> "local", epoch |-> 0,
              global |-> 0, step |-> 0, issued |-> 0, lastUsed |-> 0,
              absolute |-> 0, idle |-> 0, accessTtl |-> 0, idleTtl |-> 0]
NoFamily  == [status |-> "none", sequence |-> 0, issued |-> 0, lastUsed |-> 0,
              absolute |-> 0, idle |-> 0]
NoRefresh == [status |-> "none", issued |-> 0]
NoAccess  == [status |-> "none", issued |-> 0, expires |-> 0]

Init ==
  /\ now = 0 /\ events = 0
  /\ settings \in Settings
  /\ metadata = NoRedirect
  /\ user \in [Users -> [active : {TRUE}, local : BOOLEAN, linked : {TRUE},
                         service : {TRUE}, epoch : {0}]]
  /\ globalEpoch = 0
  /\ proofs = {} /\ accepted = {}
  /\ intent = [g \in Grants |-> NoShort]
  /\ code = [g \in Grants |-> NoShort]
  /\ grant = [g \in Grants |-> NoGrant]
  /\ family = [g \in Grants |-> NoFamily]
  /\ refresh = [g \in Grants |-> [n \in Sequences |-> NoRefresh]]
  /\ access = [g \in Grants |-> [n \in Sequences |-> NoAccess]]

-----------------------------------------------------------------------------
(* What the operations ask of the user, the client and the limits.           *)

LocalEligible(u) == user[u].active /\ user[u].local /\ user[u].service

EligibleForGrant(u, method) ==
  user[u].active /\ user[u].service /\ (method = "local" => user[u].local)

EpochsCurrent(g) ==
  grant[g].epoch = user[grant[g].user].epoch /\ grant[g].global = globalEpoch

LiveCodes == {g \in Grants : code[g].status = "open" /\ code[g].expires > now}
LiveGrants == {g \in Grants : /\ grant[g].status = "active"
                              /\ grant[g].absolute > now /\ grant[g].idle > now}
Stored(table) == {k \in Grants \X Sequences : table[k[1]][k[2]].status # "none"}
TokenCount == Cardinality(Stored(refresh)) + Cardinality(Stored(access))

RoomToAuthorize ==
  Cardinality(LiveCodes) < MaxCodes /\ Cardinality(LiveGrants) < MaxTokens
RoomForPair == TokenCount + 2 <= MaxTokens

\* upsertClient: the metadata stored first must match for ever after.  The
\* callers pass the requested redirect URI as the client's only one.
UpsertClient(r) == metadata \in {NoRedirect, r} /\ metadata' = r

-----------------------------------------------------------------------------
(* Authorization.                                                            *)

\* createExternalIntent drops expired intents and counts the others, consumed
\* ones included.
CreateExternalIntent(g, r) ==
  LET kept == [h \in Grants |-> IF intent[h].expires <= now THEN NoShort
                                ELSE intent[h]]
  IN /\ intent[g].status = "none" /\ grant[g].status = "none"
     /\ Cardinality({h \in Grants : kept[h].status # "none"}) < MaxCodes
     /\ UpsertClient(r)
     /\ intent' = [kept EXCEPT ![g] = [status |-> "open", expires |-> now + CodeTtl]]
     /\ UNCHANGED <<now, settings, events, identity, proofs, accepted, tokens>>

\* The grant and its code, inserted by one transaction.
InsertGrant(g, p, method) ==
  /\ grant' = [grant EXCEPT ![g] =
       [status |-> "active", user |-> p.user, method |-> method,
        epoch |-> p.epoch, global |-> p.global, step |-> p.step,
        issued |-> now, lastUsed |-> now, absolute |-> now + settings.max,
        idle |-> Min({now + settings.max, now + settings.idle}),
        accessTtl |-> settings.access, idleTtl |-> settings.idle]]
  /\ code' = [code EXCEPT ![g] = [status |-> "open", expires |-> now + CodeTtl]]
  /\ UNCHANGED <<family, refresh, access>>

CurrentProof(u, step) ==
  [user |-> u, epoch |-> user[u].epoch, global |-> globalEpoch, step |-> step]

\* authorizeExternalIntent, for the user the assertion is linked to.
AuthorizeExternalIntent(g, u) ==
  /\ intent[g].status = "open" /\ intent[g].expires > now
  /\ user[u].linked /\ EligibleForGrant(u, "oidc")
  /\ RoomToAuthorize
  /\ intent' = [intent EXCEPT ![g].status = "consumed"]
  /\ InsertGrant(g, CurrentProof(u, 0), "oidc")
  /\ UNCHANGED <<now, settings, events, metadata, identity, proofs, accepted>>

\* verifyMcpProof: a local login is verified with the code of the current time
\* step; the skew of a step either way is left out.
VerifyMcpProof(u) ==
  /\ Cardinality(proofs) < MaxProofs
  /\ user[u].active /\ user[u].local
  /\ proofs' = proofs \cup {CurrentProof(u, now)}
  /\ UNCHANGED <<now, settings, events, metadata, identity, accepted, intent, tokens>>

MayAuthorizeReusingStep(p) ==
  LocalEligible(p.user) /\ p.epoch = user[p.user].epoch /\ p.global = globalEpoch

MayAuthorizeStale(p) ==
  /\ LocalEligible(p.user) /\ p.global = globalEpoch
  /\ <<p.user, p.step>> \notin accepted

MayAuthorize(p) ==
  /\ LocalEligible(p.user) /\ p.epoch = user[p.user].epoch /\ p.global = globalEpoch
  /\ <<p.user, p.step>> \notin accepted

\* authorizeLocal; a refused login has to be repeated.
AuthorizeLocal(g, p, r) ==
  /\ proofs' = proofs \ {p}
  /\ \/ /\ MayAuthorize(p) /\ RoomToAuthorize
        /\ grant[g].status = "none" /\ intent[g].status = "none"
        /\ UpsertClient(r)
        /\ accepted' = accepted \cup {<<p.user, p.step>>}
        /\ InsertGrant(g, p, "local")
     \/ /\ ~(MayAuthorize(p) /\ RoomToAuthorize /\ metadata \in {NoRedirect, r})
        /\ UNCHANGED <<metadata, accepted, tokens>>
  /\ UNCHANGED <<now, settings, events, identity, intent>>

-----------------------------------------------------------------------------
(* Tokens.                                                                   *)

\* What a code must satisfy besides the limits: whatever the grant's method, the
\* user must have a password and a TOTP authenticator.
MayExchange(g) ==
  /\ code[g].status = "open" /\ code[g].expires > now
  /\ g \in LiveGrants
  /\ LocalEligible(grant[g].user) /\ EpochsCurrent(g)

\* The refresh and access token with sequence n; used is the family's refresh
\* tokens with the presented one marked.
IssuePair(g, n, used) ==
  /\ refresh' = [refresh EXCEPT ![g] =
       [used EXCEPT ![n] = [status |-> "active", issued |-> now]]]
  /\ access' = [access EXCEPT ![g][n] =
       [status |-> "active", issued |-> now,
        expires |-> now + Min({grant[g].accessTtl, settings.access})]]

\* exchangeAuthorizationCode.
Exchange(g) ==
  LET absolute == Min({grant[g].absolute, now + settings.max})
      idle     == Min({absolute, now + settings.idle})
  IN /\ MayExchange(g) /\ RoomForPair
     /\ code' = [code EXCEPT ![g].status = "consumed"]
     /\ family' = [family EXCEPT ![g] =
          [status |-> "active", sequence |-> 0, issued |-> now, lastUsed |-> now,
           absolute |-> absolute, idle |-> idle]]
     /\ IssuePair(g, 0, refresh[g])
     /\ grant' = [grant EXCEPT ![g] = [@ EXCEPT !.lastUsed = now, !.idle = idle]]
     /\ UNCHANGED <<now, settings, events, metadata, identity, pending>>

\* Settings lowered after the issue shorten the lifetimes; raised, they do not
\* lengthen them.
CurrentAbsolute(g) ==
  Min({family[g].absolute, grant[g].absolute,
       family[g].issued + settings.max, grant[g].issued + settings.max})
CurrentIdle(g) ==
  Min({CurrentAbsolute(g), family[g].idle, grant[g].idle,
       family[g].lastUsed + settings.idle})
RefreshedIdle(g) ==
  Min({CurrentAbsolute(g), now + Min({grant[g].idleTtl, settings.idle})})

\* The use of a family and its grant restarts their idle time.
Touch(g, sequence) ==
  /\ family' = [family EXCEPT ![g] =
       [@ EXCEPT !.sequence = sequence, !.lastUsed = now, !.idle = RefreshedIdle(g)]]
  /\ grant' = [grant EXCEPT ![g] =
       [@ EXCEPT !.lastUsed = now, !.idle = RefreshedIdle(g)]]

LiveIgnoringIdle(g) ==
  /\ grant[g].status = "active" /\ family[g].status = "active"
  /\ CurrentAbsolute(g) > now
  /\ EligibleForGrant(grant[g].user, grant[g].method) /\ EpochsCurrent(g)

\* The conditions refresh and access tokens share.
Live(g) ==
  /\ grant[g].status = "active" /\ family[g].status = "active"
  /\ CurrentAbsolute(g) > now /\ CurrentIdle(g) > now
  /\ EligibleForGrant(grant[g].user, grant[g].method) /\ EpochsCurrent(g)

RevokedAsExpired(rows) ==
  [n \in Sequences |-> [rows[n] EXCEPT !.status = IF @ = "active" THEN "expired" ELSE @]]

\* Every active row of a table of tokens, revoked.
Revoked(rows) ==
  [n \in Sequences |-> [rows[n] EXCEPT !.status = IF @ = "active" THEN "revoked" ELSE @]]

RevokeReplayedKeepingAccess(g) ==
  /\ family' = [family EXCEPT ![g].status = "revoked"]
  /\ refresh' = [refresh EXCEPT ![g] = Revoked(@)]
  /\ UNCHANGED access

RevokeReplayed(g) ==
  /\ family' = [family EXCEPT ![g].status = "revoked"]
  /\ refresh' = [refresh EXCEPT ![g] = Revoked(@)]
  /\ access' = [access EXCEPT ![g] = Revoked(@)]

\* rotateRefreshToken: a token used before is a replay and revokes its family.
Rotate(g, n) ==
  /\ \/ /\ refresh[g][n].status = "used" /\ family[g].status = "active"
        /\ RevokeReplayed(g)
        /\ UNCHANGED <<code, grant>>
     \/ /\ refresh[g][n].status = "active" /\ n = family[g].sequence
        /\ Live(g) /\ RoomForPair /\ n < MaxSequence
        /\ IssuePair(g, n + 1, [refresh[g] EXCEPT ![n].status = "used"])
        /\ Touch(g, n + 1)
        /\ UNCHANGED code
  /\ UNCHANGED <<now, settings, events, metadata, identity, pending>>

\* authenticateAccessToken.
AuthenticateAccess(g, n) ==
  /\ access[g][n].status = "active"
  /\ Min({access[g][n].expires, access[g][n].issued + settings.access}) > now
  /\ Live(g) /\ grant[g].lastUsed + settings.idle > now
  /\ Touch(g, family[g].sequence)
  /\ UNCHANGED <<now, settings, events, metadata, identity, pending, code, refresh, access>>

\* The subsets of S of at most SweepLimit rows that no row left is older than.
Oldest(S, age) ==
  {T \in SUBSET S : /\ Cardinality(T) = Min({SweepLimit, Cardinality(S)})
                    /\ \A t \in T, s \in S \ T : age[t] <= age[s]}

SpentRefreshOrUsed ==
  {k \in Stored(refresh) : \/ family[k[1]].status # "active"
                           \/ family[k[1]].absolute <= now
                           \/ family[k[1]].idle <= now
                           \/ refresh[k[1]][k[2]].status = "used"}

SpentRefresh ==
  {k \in Stored(refresh) : \/ family[k[1]].status # "active"
                           \/ family[k[1]].absolute <= now
                           \/ family[k[1]].idle <= now}

SpentAccess ==
  {k \in Stored(access) : access[k[1]][k[2]].status = "revoked"
                          \/ access[k[1]][k[2]].expires <= now}

SpentShort(table) ==
  {g \in Grants : table[g].status = "consumed"
                  \/ (table[g].status = "open" /\ table[g].expires <= now)}

\* The rows chosen are deleted in one transaction.
Sweep(codes, intents, accesses, refreshes) ==
  /\ code' = [g \in Grants |-> IF g \in codes THEN NoShort ELSE code[g]]
  /\ intent' = [g \in Grants |-> IF g \in intents THEN NoShort ELSE intent[g]]
  /\ access' = [g \in Grants |-> [n \in Sequences |->
                  IF <<g, n>> \in accesses THEN NoAccess ELSE access[g][n]]]
  /\ refresh' = [g \in Grants |-> [n \in Sequences |->
                  IF <<g, n>> \in refreshes THEN NoRefresh ELSE refresh[g][n]]]
  /\ UNCHANGED <<now, settings, events, metadata, identity, proofs, accepted>>
  /\ UNCHANGED <<grant, family>>

\* sweepExpired.
SweepExpired ==
  \E c \in Oldest(SpentShort(code), [g \in Grants |-> code[g].expires]),
     i \in Oldest(SpentShort(intent), [g \in Grants |-> intent[g].expires]),
     a \in Oldest(SpentAccess,
             [k \in Grants \X Sequences |-> access[k[1]][k[2]].expires]),
     r \in Oldest(SpentRefresh,
             [k \in Grants \X Sequences |-> refresh[k[1]][k[2]].issued]) :
    Sweep(c, i, a, r)

-----------------------------------------------------------------------------
(* Revocation.                                                               *)

GrantsOf(U) == {g \in Grants : grant[g].user \in U}

RevokedStatus(row) == [row EXCEPT !.status = IF @ = "active" THEN "revoked" ELSE @]

\* revokeGrantSet, and what the triggers do to the same tables.  Codes stay.
RevokeGrantSet(G) ==
  /\ grant' = [g \in Grants |-> IF g \in G THEN RevokedStatus(grant[g]) ELSE grant[g]]
  /\ family' = [g \in Grants |-> IF g \in G THEN RevokedStatus(family[g]) ELSE family[g]]
  /\ refresh' = [g \in Grants |-> IF g \in G THEN Revoked(refresh[g]) ELSE refresh[g]]
  /\ access' = [g \in Grants |-> IF g \in G THEN Revoked(access[g]) ELSE access[g]]
  /\ UNCHANGED code

\* revokeGrant and revokeAdministrativeGrant.
RevokeGrant(g) ==
  /\ RevokeGrantSet({g})
  /\ UNCHANGED <<now, settings, events, metadata, identity, pending>>

\* revokeOwnGrants, and revokeGrantBulk of a user.
RevokeOwnGrants(u) ==
  /\ RevokeGrantSet(GrantsOf({u}))
  /\ UNCHANGED <<now, settings, events, metadata, identity, pending>>

RequireGlobalRevocationCapacity ==
  Cardinality({g \in Grants : grant[g].status = "active"}) <= RevocationLimit

\* revokeGrantBulk of all grants.
RevokeGrantBulk ==
  /\ RequireGlobalRevocationCapacity
  /\ RevokeGrantSet(Grants)
  /\ UNCHANGED <<now, settings, events, metadata, identity, pending>>

\* One more administrative change.
Event == events < MaxEvents /\ events' = events + 1

\* What a change may make of a user: a new password; suspension, reactivation;
\* a reset, that requires enrollment again; local or OIDC enrollment; a link added,
\* or removed while another method is left.
Changes(w) ==
  {w, [w EXCEPT !.active = FALSE, !.local = FALSE], [w EXCEPT !.linked = TRUE]}
    \cup {v \in {[w EXCEPT !.active = ~@]} : w.active \/ w.local \/ w.linked}
    \cup {v \in {[w EXCEPT !.active = TRUE, !.local = TRUE],
                 [w EXCEPT !.active = TRUE, !.linked = TRUE]} : ~w.active /\ ~w.local}
    \cup {v \in {[w EXCEPT !.linked = FALSE]} : w.active => w.local}

\* Every change advances the user's epoch in its transaction, where the trigger
\* oauth_user_security_revoke fires; a reset drops the accepted steps.
ChangeUser(u, changed) ==
  /\ Event
  /\ user' = [user EXCEPT ![u] = [changed EXCEPT !.epoch = @ + 1]]
  /\ accepted' = {a \in accepted : a[1] = u /\ user[u].local => changed.local}
  /\ RevokeGrantSet(GrantsOf({u}))
  /\ UNCHANGED <<now, settings, metadata, globalEpoch, proofs, intent>>

\* executeEvent for a global password change or TOTP reset, with the trigger
\* oauth_global_security_revoke.
GlobalSecurityEvent(kind) ==
  /\ Event
  /\ globalEpoch' = globalEpoch + 1
  /\ IF kind = "totp_reset"
     THEN /\ accepted' = {}
          /\ user' = [u \in Users |-> [user[u] EXCEPT !.local = FALSE]]
     ELSE UNCHANGED <<accepted, user>>
  /\ RevokeGrantSet(Grants)
  /\ UNCHANGED <<now, settings, metadata, proofs, intent>>

\* The user's services are assigned and withdrawn without an epoch.
ReplaceAssignments(u) ==
  /\ Event
  /\ user' = [user EXCEPT ![u].service = ~@]
  /\ UNCHANGED <<now, settings, metadata, globalEpoch, pending, tokens>>

ChangeSettings ==
  /\ Event
  /\ settings' \in Settings \ {settings}
  /\ UNCHANGED <<now, metadata, identity, pending, tokens>>

Tick ==
  /\ now < MaxTime
  /\ now' = now + 1
  /\ UNCHANGED <<settings, events, metadata, identity, pending, tokens>>

Next ==
  \/ \E g \in Grants, r \in Redirects : CreateExternalIntent(g, r)
  \/ \E g \in Grants, u \in Users : AuthorizeExternalIntent(g, u)
  \/ \E u \in Users : VerifyMcpProof(u)
  \/ \E g \in Grants, p \in proofs, r \in Redirects : AuthorizeLocal(g, p, r)
  \/ \E g \in Grants : Exchange(g)
  \/ \E g \in Grants, n \in Sequences : Rotate(g, n)
  \/ \E g \in Grants, n \in Sequences : AuthenticateAccess(g, n)
  \/ SweepExpired
  \/ \E g \in Grants : RevokeGrant(g)
  \/ \E u \in Users : RevokeOwnGrants(u)
  \/ RevokeGrantBulk
  \/ \E u \in Users : \E changed \in Changes(user[u]) : ChangeUser(u, changed)
  \/ \E kind \in {"password_change", "totp_reset"} : GlobalSecurityEvent(kind)
  \/ \E u \in Users : ReplaceAssignments(u)
  \/ ChangeSettings
  \/ Tick

Spec == Init /\ [][Next]_vars

-----------------------------------------------------------------------------
(* Properties.                                                               *)

\* Every table holds rows of its shape.
TypeOK ==
  /\ now \in 0..MaxTime /\ events \in 0..MaxEvents /\ settings \in Settings
  /\ metadata \in Redirects \cup {NoRedirect}
  /\ user \in [Users -> User] /\ globalEpoch \in Nat
  /\ proofs \subseteq Proof /\ accepted \subseteq Users \X Nat
  /\ intent \in [Grants -> Short] /\ code \in [Grants -> Short]
  /\ grant \in [Grants -> Grant] /\ family \in [Grants -> Family]
  /\ refresh \in [Grants -> [Sequences -> Refresh]]
  /\ access \in [Grants -> [Sequences -> Access]]

\* As long as a family can be used, exactly its latest refresh token is active and
\* every earlier one is still there marked used, so that its replay is noticed:
\* neither rotation nor the sweep of old rows loses one.
ReplayDetectable ==
  \A g \in Grants :
    family[g].status = "active" /\ family[g].absolute > now /\ family[g].idle > now =>
      \A n \in Sequences :
        refresh[g][n].status = IF n < family[g].sequence THEN "used"
                               ELSE IF n = family[g].sequence THEN "active"
                               ELSE "none"

\* An active grant belongs to a user who has not changed since it was issued, even
\* when a login was verified before a change and authorized after it.
ActiveGrantsCurrent ==
  \A g \in Grants : grant[g].status = "active" =>
    LET u == user[grant[g].user]
    IN /\ u.active /\ EpochsCurrent(g)
       /\ IF grant[g].method = "local" THEN u.local ELSE u.linked

\* No token outlives the family it belongs to and no family its grant: replay,
\* manual revocation and the triggers each reach every table below.
NothingOutlivesItsOwner ==
  \A g \in Grants :
    /\ family[g].status = "active" => grant[g].status = "active"
    /\ \A n \in Sequences :
         "active" \in {refresh[g][n].status, access[g][n].status} =>
           family[g].status = "active"

\* A family past its lifetime or revoked.
Spent(g) ==
  \/ family[g].status = "revoked"
  \/ family[g].status = "active" /\ (family[g].absolute <= now \/ family[g].idle <= now)

\* A step keeps a spent family spent and otherwise as it is, and a revoked grant.
StaysSpent(g) ==
  /\ Spent(g) => /\ Spent(g)'
                 /\ [family'[g] EXCEPT !.status = "revoked"]
                      = [family[g] EXCEPT !.status = "revoked"]
  /\ grant[g].status = "revoked" => grant'[g] = grant[g]

\* A spent family is never used again: no later rotation, access or change of the
\* settings extends or advances it, and a revoked grant stays revoked.
NoRevival == [][\A g \in Grants : StaysSpent(g)]_vars

\* While an account does not change, a TOTP code authorizes one grant, however
\* many logins were verified with it.
TotpOnce ==
  \A g, h \in Grants :
    /\ g # h /\ grant[g].status # "none" /\ grant[g].method = "local"
    /\ grant[h].status # "none" /\ grant[h].method = "local"
    /\ grant[g].user = grant[h].user
    /\ grant[g].epoch = grant[h].epoch /\ grant[g].global = grant[h].global
    => grant[g].step # grant[h].step

\* A code handed to a user who may still use the grant can be exchanged.
LiveCodesExchange ==
  \A g \in LiveCodes \cap LiveGrants :
    EligibleForGrant(grant[g].user, grant[g].method) /\ EpochsCurrent(g)
      => MayExchange(g)
=============================================================================
