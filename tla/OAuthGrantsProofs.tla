-------------------------- MODULE OAuthGrantsProofs --------------------------
(***************************************************************************)
(* Proofs about OAuthGrants for every set of users, grants and settings    *)
(* and every limit and bound.                                              *)
(***************************************************************************)
EXTENDS OAuthGrants, WellFoundedInduction, TLAPS

\* What a row that does not exist yet implies: an open intent has no grant, a grant
\* that does not exist or whose code is open has no family, and a family that does
\* not exist no refresh tokens.  A grant that exists has a user.
RowsInOrder ==
  \A g \in Grants :
    /\ intent[g].status = "open" => grant[g].status = "none"
    /\ grant[g].status = "none" => family[g].status = "none"
    /\ grant[g].status # "none" => grant[g].user \in Users
    /\ code[g].status = "open" => family[g].status = "none"
    /\ family[g].status = "none" =>
         \A n \in Sequences : refresh[g][n].status = "none"

\* Epochs only advance, and as long as a local grant's are current its time step
\* is still among the accepted ones.
StepsAccepted ==
  \A g \in Grants :
    (grant[g].status # "none" /\ grant[g].method = "local") =>
      /\ grant[g].epoch <= user[grant[g].user].epoch
      /\ grant[g].global <= globalEpoch
      /\ EpochsCurrent(g) => <<grant[g].user, grant[g].step>> \in accepted

IInv ==
  /\ TypeOK /\ RowsInOrder /\ NothingOutlivesItsOwner
  /\ ActiveGrantsCurrent /\ ReplayDetectable /\ StepsAccepted /\ TotpOnce

-----------------------------------------------------------------------------
(* Least numbers.                                                            *)

\* Min of a set of times is one of them and none is smaller.
LEMMA LeastTime ==
  ASSUME NEW S \in SUBSET Nat, S # {}
  PROVE  Min(S) \in S /\ Min(S) \in Nat /\ \A y \in S : Min(S) <= y
<1> DEFINE R == {ss \in Nat \X Nat : ss[1] < ss[2]}
<1>0. IsWellFoundedOn(R, Nat)
  BY NatLessThanWellFounded DEF OpToRel
<1>1. PICK x \in S : \A y \in S : <<y, x>> \notin R
  <2> HIDE DEF R
  <2> QED BY <1>0, WFMin
<1>2. ASSUME NEW y \in S PROVE x <= y
  <2>1. x \in Nat /\ y \in Nat
    OBVIOUS
  <2>2. <<y, x>> \in R <=> y < x
    BY <2>1
  <2> QED BY <1>1, <2>1, <2>2
<1>3. \E z \in S : \A y \in S : z =< y
  BY <1>2
<1>4. Min(S) \in S /\ \A y \in S : Min(S) =< y
  BY <1>3 DEF Min
<1> QED BY <1>4

\* The lifetimes in force are times, no later than the ones stored with the family.
LEMMA Lifetimes ==
  ASSUME TypeOK, NEW g \in Grants
  PROVE  /\ CurrentAbsolute(g) \in Nat /\ CurrentAbsolute(g) <= family[g].absolute
         /\ CurrentIdle(g) \in Nat /\ CurrentIdle(g) <= family[g].idle
         /\ RefreshedIdle(g) \in Nat /\ RefreshedIdle(g) <= CurrentAbsolute(g)
<1>1. /\ family[g] \in Family /\ grant[g] \in Grant /\ now \in Nat
      /\ settings.max \in Nat /\ settings.idle \in Nat
  BY OAuthGrantsAssumption DEF TypeOK
<1>2. /\ family[g].absolute \in Nat /\ family[g].idle \in Nat
      /\ family[g].issued \in Nat /\ family[g].lastUsed \in Nat
      /\ grant[g].absolute \in Nat /\ grant[g].idle \in Nat
      /\ grant[g].issued \in Nat /\ grant[g].idleTtl \in Nat
  BY <1>1 DEF Family, Grant
<1>3. /\ CurrentAbsolute(g) \in Nat
      /\ CurrentAbsolute(g) <= family[g].absolute
  BY <1>1, <1>2, LeastTime DEF CurrentAbsolute
<1>4. /\ CurrentIdle(g) \in Nat /\ CurrentIdle(g) <= family[g].idle
  BY <1>1, <1>2, <1>3, LeastTime DEF CurrentIdle
<1>5. /\ RefreshedIdle(g) \in Nat /\ RefreshedIdle(g) <= CurrentAbsolute(g)
  BY <1>1, <1>2, <1>3, LeastTime DEF RefreshedIdle
<1> QED BY <1>3, <1>4, <1>5

-----------------------------------------------------------------------------
(* Types.                                                                    *)

\* The settings in force and the clock are numbers.
LEMMA Numbers ==
  ASSUME TypeOK
  PROVE  /\ now \in Nat /\ globalEpoch \in Nat /\ CodeTtl \in Nat
         /\ settings.access \in Nat /\ settings.idle \in Nat /\ settings.max \in Nat
  BY OAuthGrantsAssumption DEF TypeOK

\* A new grant and its code have their types.
LEMMA InsertGrantType ==
  ASSUME TypeOK, NEW g \in Grants, NEW p \in Proof, NEW method \in {"local", "oidc"},
         InsertGrant(g, p, method)
  PROVE  /\ code' \in [Grants -> Short] /\ grant' \in [Grants -> Grant]
         /\ family' = family /\ refresh' = refresh /\ access' = access
<1>1. Min({now + settings.max, now + settings.idle}) \in Nat
  BY Numbers, LeastTime
<1>2. code' \in [Grants -> Short]
  BY Numbers DEF InsertGrant, TypeOK, Short
<1>3. grant' \in [Grants -> Grant]
  BY <1>1, Numbers DEF InsertGrant, TypeOK, Grant, Proof
<1> QED BY <1>2, <1>3 DEF InsertGrant

\* So have a pair of tokens.
LEMMA IssuePairType ==
  ASSUME TypeOK, NEW g \in Grants, NEW n \in Sequences,
         NEW used \in [Sequences -> Refresh], IssuePair(g, n, used)
  PROVE  /\ refresh' \in [Grants -> [Sequences -> Refresh]]
         /\ access' \in [Grants -> [Sequences -> Access]]
<1>1. Min({grant[g].accessTtl, settings.access}) \in Nat
  <2>1. grant[g].accessTtl \in Nat
    BY DEF TypeOK, Grant
  <2> QED BY <2>1, Numbers, LeastTime
<1>2. [used EXCEPT ![n] = [status |-> "active", issued |-> now]]
        \in [Sequences -> Refresh]
  BY Numbers DEF Refresh
<1>3. refresh' \in [Grants -> [Sequences -> Refresh]]
  BY <1>2 DEF IssuePair, TypeOK
<1>4. access' \in [Grants -> [Sequences -> Access]]
  BY <1>1, Numbers DEF IssuePair, TypeOK, Access
<1> QED BY <1>3, <1>4

\* A grant keeps its type when it is used.
LEMMA UsedGrantType ==
  ASSUME NEW r \in Grant, NEW t \in Nat, NEW i \in Nat
  PROVE  [r EXCEPT !.lastUsed = t, !.idle = i] \in Grant
<1>1. \A q \in Grant : [q EXCEPT !.lastUsed = t] \in Grant
  BY DEF Grant
<1>2. \A q \in Grant : [q EXCEPT !.idle = i] \in Grant
  BY DEF Grant
<1>3. [r EXCEPT !.lastUsed = t, !.idle = i]
        = [[r EXCEPT !.lastUsed = t] EXCEPT !.idle = i]
  OBVIOUS
<1> QED BY <1>1, <1>2, <1>3

\* And a family and grant in use.
LEMMA TouchType ==
  ASSUME TypeOK, NEW g \in Grants, NEW sequence \in Sequences, Touch(g, sequence)
  PROVE  family' \in [Grants -> Family] /\ grant' \in [Grants -> Grant]
<1>1. RefreshedIdle(g) \in Nat /\ now \in Nat
  BY Lifetimes, Numbers
<1>2. family' \in [Grants -> Family]
  BY <1>1 DEF Touch, TypeOK, Family
<1>3. grant' \in [Grants -> Grant]
  <2>1. [grant[g] EXCEPT !.lastUsed = now, !.idle = RefreshedIdle(g)] \in Grant
    BY <1>1, UsedGrantType DEF TypeOK
  <2> QED BY <2>1 DEF Touch, TypeOK
<1> QED BY <1>2, <1>3

\* Revoked rows keep their shape.
LEMMA RevokedType ==
  /\ \A rows \in [Sequences -> Refresh] : Revoked(rows) \in [Sequences -> Refresh]
  /\ \A rows \in [Sequences -> Access] : Revoked(rows) \in [Sequences -> Access]
  /\ \A r \in Grant : RevokedStatus(r) \in Grant
  /\ \A r \in Family : RevokedStatus(r) \in Family
<1>1. \A rows \in [Sequences -> Refresh] : Revoked(rows) \in [Sequences -> Refresh]
  BY DEF Revoked, Refresh
<1>2. \A rows \in [Sequences -> Access] : Revoked(rows) \in [Sequences -> Access]
  BY DEF Revoked, Access
<1>3. \A r \in Grant : RevokedStatus(r) \in Grant
  BY DEF RevokedStatus, Grant
<1>4. \A r \in Family : RevokedStatus(r) \in Family
  BY DEF RevokedStatus, Family
<1> QED BY <1>1, <1>2, <1>3, <1>4

\* Revoking any set of grants keeps every table's type.
LEMMA RevokeGrantSetType ==
  ASSUME TypeOK, NEW G \in SUBSET Grants, RevokeGrantSet(G)
  PROVE  /\ code' \in [Grants -> Short] /\ grant' \in [Grants -> Grant]
         /\ family' \in [Grants -> Family]
         /\ refresh' \in [Grants -> [Sequences -> Refresh]]
         /\ access' \in [Grants -> [Sequences -> Access]]
<1>1. /\ \A g \in Grants : grant[g] \in Grant /\ family[g] \in Family
      /\ \A g \in Grants : refresh[g] \in [Sequences -> Refresh]
      /\ \A g \in Grants : access[g] \in [Sequences -> Access]
      /\ code \in [Grants -> Short]
  BY DEF TypeOK
<1>2. grant' \in [Grants -> Grant] /\ family' \in [Grants -> Family]
  BY <1>1, RevokedType DEF RevokeGrantSet
<1>3. refresh' \in [Grants -> [Sequences -> Refresh]]
  BY <1>1, RevokedType DEF RevokeGrantSet
<1>4. access' \in [Grants -> [Sequences -> Access]]
  BY <1>1, RevokedType DEF RevokeGrantSet
<1> QED BY <1>1, <1>2, <1>3, <1>4 DEF RevokeGrantSet

\* A change of a user yields a user.
LEMMA ChangesType ==
  ASSUME NEW w \in User, NEW changed \in Changes(w)
  PROVE  changed \in User /\ [changed EXCEPT !.epoch = @ + 1] \in User
         /\ changed.epoch = w.epoch
<1>1. changed \in User /\ changed.epoch = w.epoch
  BY DEF Changes, User
<1> QED BY <1>1 DEF User

\* The sweep takes only rows that are spent.
LEMMA SweepTakesSpent ==
  ASSUME SweepExpired
  PROVE  \E c, i, a, r :
           /\ c \subseteq SpentShort(code) /\ i \subseteq SpentShort(intent)
           /\ r \subseteq SpentRefresh /\ Sweep(c, i, a, r)
<1>1. \A S, age : \A T \in Oldest(S, age) : T \subseteq S
  BY DEF Oldest
<1> QED BY <1>1 DEF SweepExpired

\* Every step keeps the types.
LEMMA TypeStep ==
  ASSUME TypeOK, [Next]_vars
  PROVE  TypeOK'
<1> USE DEF identity, pending, tokens
<1>1. CASE UNCHANGED vars
  BY <1>1 DEF TypeOK, vars
<1>2. ASSUME NEW g \in Grants, NEW r \in Redirects, CreateExternalIntent(g, r)
      PROVE  TypeOK'
  <2>1. intent' \in [Grants -> Short]
    BY <1>2, Numbers DEF CreateExternalIntent, TypeOK, Short, NoShort
  <2> QED BY <1>2, <2>1 DEF CreateExternalIntent, UpsertClient, TypeOK
<1>3. ASSUME NEW g \in Grants, NEW u \in Users, AuthorizeExternalIntent(g, u)
      PROVE  TypeOK'
  <2>1. CurrentProof(u, 0) \in Proof
    BY DEF CurrentProof, Proof, TypeOK, User
  <2>2. /\ code' \in [Grants -> Short] /\ grant' \in [Grants -> Grant]
        /\ family' = family /\ refresh' = refresh /\ access' = access
    BY <1>3, <2>1, InsertGrantType DEF AuthorizeExternalIntent
  <2>3. intent' \in [Grants -> Short]
    BY <1>3 DEF AuthorizeExternalIntent, TypeOK, Short
  <2> QED BY <1>3, <2>2, <2>3 DEF AuthorizeExternalIntent, TypeOK
<1>4. ASSUME NEW u \in Users, VerifyMcpProof(u)
      PROVE  TypeOK'
  <2>1. CurrentProof(u, now) \in Proof
    BY Numbers DEF CurrentProof, Proof, TypeOK, User
  <2> QED BY <1>4, <2>1 DEF VerifyMcpProof, TypeOK
<1>5. ASSUME NEW g \in Grants, NEW p \in proofs, NEW r \in Redirects,
             AuthorizeLocal(g, p, r)
      PROVE  TypeOK'
  <2>1. p \in Proof /\ p.user \in Users /\ p.step \in Nat
    BY DEF TypeOK, Proof
  <2>2. CASE InsertGrant(g, p, "local") /\ UpsertClient(r)
             /\ accepted' = accepted \cup {<<p.user, p.step>>}
    <3>1. /\ code' \in [Grants -> Short] /\ grant' \in [Grants -> Grant]
          /\ family' = family /\ refresh' = refresh /\ access' = access
      BY <2>1, <2>2, InsertGrantType
    <3> QED BY <1>5, <2>1, <2>2, <3>1 DEF AuthorizeLocal, UpsertClient, TypeOK
  <2>3. CASE UNCHANGED <<metadata, accepted, tokens>>
    BY <1>5, <2>3 DEF AuthorizeLocal, TypeOK
  <2> QED BY <1>5, <2>2, <2>3 DEF AuthorizeLocal
<1>6. ASSUME NEW g \in Grants, Exchange(g)
      PROVE  TypeOK'
  <2> DEFINE absolute == Min({grant[g].absolute, now + settings.max})
             idle     == Min({absolute, now + settings.idle})
  <2>1. absolute \in Nat
    <3>1. grant[g].absolute \in Nat
      BY DEF TypeOK, Grant
    <3> QED BY <3>1, Numbers, LeastTime
  <2>2. idle \in Nat
    <3> HIDE DEF absolute
    <3> QED BY <2>1, Numbers, LeastTime
  <2>3. 0 \in Sequences
    BY OAuthGrantsAssumption DEF Sequences
  <2>4. /\ IssuePair(g, 0, refresh[g])
        /\ code' = [code EXCEPT ![g].status = "consumed"]
        /\ family' = [family EXCEPT ![g] =
             [status |-> "active", sequence |-> 0, issued |-> now, lastUsed |-> now,
              absolute |-> absolute, idle |-> idle]]
        /\ grant' = [grant EXCEPT ![g] = [@ EXCEPT !.lastUsed = now, !.idle = idle]]
    BY <1>6 DEF Exchange
  <2> HIDE DEF absolute, idle
  <2>5. code' \in [Grants -> Short]
    BY <2>4 DEF TypeOK, Short
  <2>6. family' \in [Grants -> Family]
    BY <2>1, <2>2, <2>3, <2>4, Numbers DEF TypeOK, Family
  <2>7. grant' \in [Grants -> Grant]
    <3>1. [grant[g] EXCEPT !.lastUsed = now, !.idle = idle] \in Grant
      BY <2>2, Numbers, UsedGrantType DEF TypeOK
    <3> QED BY <3>1, <2>4 DEF TypeOK
  <2>8. /\ refresh' \in [Grants -> [Sequences -> Refresh]]
        /\ access' \in [Grants -> [Sequences -> Access]]
    BY <2>3, <2>4, IssuePairType DEF TypeOK
  <2> QED BY <1>6, <2>5, <2>6, <2>7, <2>8 DEF Exchange, TypeOK
<1>7. ASSUME NEW g \in Grants, NEW n \in Sequences, Rotate(g, n)
      PROVE  TypeOK'
  <2>1. CASE RevokeReplayed(g) /\ UNCHANGED <<code, grant>>
    <3>1. refresh[g] \in [Sequences -> Refresh] /\ access[g] \in [Sequences -> Access]
      BY DEF TypeOK
    <3>2. /\ refresh' \in [Grants -> [Sequences -> Refresh]]
          /\ access' \in [Grants -> [Sequences -> Access]]
      BY <2>1, <3>1, RevokedType DEF RevokeReplayed, TypeOK
    <3>3. family' \in [Grants -> Family]
      BY <2>1 DEF RevokeReplayed, TypeOK, Family
    <3> QED BY <1>7, <2>1, <3>2, <3>3 DEF Rotate, TypeOK
  <2>2. CASE /\ n < MaxSequence
             /\ IssuePair(g, n + 1, [refresh[g] EXCEPT ![n].status = "used"])
             /\ Touch(g, n + 1) /\ UNCHANGED code
    <3>1. n + 1 \in Sequences
      BY <2>2, OAuthGrantsAssumption DEF Sequences
    <3>2. [refresh[g] EXCEPT ![n].status = "used"] \in [Sequences -> Refresh]
      <4>1. refresh[g] \in [Sequences -> Refresh]
        BY DEF TypeOK
      <4>2. [refresh[g][n] EXCEPT !.status = "used"] \in Refresh
        BY <4>1 DEF Refresh
      <4> QED BY <4>1, <4>2
    <3>3. /\ refresh' \in [Grants -> [Sequences -> Refresh]]
          /\ access' \in [Grants -> [Sequences -> Access]]
      BY <2>2, <3>1, <3>2, IssuePairType
    <3>4. family' \in [Grants -> Family] /\ grant' \in [Grants -> Grant]
      BY <2>2, <3>1, TouchType
    <3> QED BY <1>7, <2>2, <3>3, <3>4 DEF Rotate, TypeOK
  <2> QED BY <1>7, <2>1, <2>2 DEF Rotate
<1>8. ASSUME NEW g \in Grants, NEW n \in Sequences, AuthenticateAccess(g, n)
      PROVE  TypeOK'
  <2>1. family[g].sequence \in Sequences
    BY DEF TypeOK, Family
  <2>2. family' \in [Grants -> Family] /\ grant' \in [Grants -> Grant]
    BY <1>8, <2>1, TouchType DEF AuthenticateAccess
  <2> QED BY <1>8, <2>2 DEF AuthenticateAccess, TypeOK
<1>9. CASE SweepExpired
  <2>1. PICK c, i, a, r : Sweep(c, i, a, r)
    BY <1>9, SweepTakesSpent
  <2>2. NoShort \in Short /\ NoAccess \in Access /\ NoRefresh \in Refresh
    BY DEF NoShort, NoAccess, NoRefresh, Short, Access, Refresh
  <2>3. code' \in [Grants -> Short] /\ intent' \in [Grants -> Short]
    BY <2>1, <2>2 DEF Sweep, TypeOK
  <2>4. access' \in [Grants -> [Sequences -> Access]]
    BY <2>1, <2>2 DEF Sweep, TypeOK
  <2>5. refresh' \in [Grants -> [Sequences -> Refresh]]
    BY <2>1, <2>2 DEF Sweep, TypeOK
  <2> QED BY <2>1, <2>3, <2>4, <2>5 DEF Sweep, TypeOK
<1>10. ASSUME NEW g \in Grants, RevokeGrant(g)
       PROVE  TypeOK'
  BY <1>10, RevokeGrantSetType DEF RevokeGrant, TypeOK
<1>11. ASSUME NEW u \in Users, RevokeOwnGrants(u)
       PROVE  TypeOK'
  BY <1>11, RevokeGrantSetType DEF RevokeOwnGrants, GrantsOf, TypeOK
<1>12. CASE RevokeGrantBulk
  BY <1>12, RevokeGrantSetType DEF RevokeGrantBulk, TypeOK
<1>13. ASSUME NEW u \in Users, NEW changed \in Changes(user[u]), ChangeUser(u, changed)
       PROVE  TypeOK'
  <2>1. events' \in 0..MaxEvents
    BY <1>13, OAuthGrantsAssumption DEF ChangeUser, Event, TypeOK
  <2>2. user' \in [Users -> User]
    <3>1. [changed EXCEPT !.epoch = @ + 1] \in User
      BY ChangesType DEF TypeOK
    <3> QED BY <1>13, <3>1 DEF ChangeUser, TypeOK
  <2>3. /\ code' \in [Grants -> Short] /\ grant' \in [Grants -> Grant]
        /\ family' \in [Grants -> Family]
        /\ refresh' \in [Grants -> [Sequences -> Refresh]]
        /\ access' \in [Grants -> [Sequences -> Access]]
    BY <1>13, RevokeGrantSetType DEF ChangeUser, GrantsOf
  <2> QED BY <1>13, <2>1, <2>2, <2>3 DEF ChangeUser, TypeOK
<1>14. ASSUME NEW kind \in {"password_change", "totp_reset"}, GlobalSecurityEvent(kind)
       PROVE  TypeOK'
  <2>1. events' \in 0..MaxEvents /\ globalEpoch' \in Nat
    BY <1>14, OAuthGrantsAssumption DEF GlobalSecurityEvent, Event, TypeOK
  <2>2. user' \in [Users -> User] /\ accepted' \subseteq Users \X Nat
    <3>1. \A u \in Users : [user[u] EXCEPT !.local = FALSE] \in User
      BY DEF TypeOK, User
    <3> QED BY <1>14, <3>1 DEF GlobalSecurityEvent, TypeOK
  <2>3. /\ code' \in [Grants -> Short] /\ grant' \in [Grants -> Grant]
        /\ family' \in [Grants -> Family]
        /\ refresh' \in [Grants -> [Sequences -> Refresh]]
        /\ access' \in [Grants -> [Sequences -> Access]]
    BY <1>14, RevokeGrantSetType DEF GlobalSecurityEvent
  <2> QED BY <1>14, <2>1, <2>2, <2>3 DEF GlobalSecurityEvent, TypeOK
<1>15. ASSUME NEW u \in Users, ReplaceAssignments(u)
       PROVE  TypeOK'
  <2>1. events' \in 0..MaxEvents
    BY <1>15, OAuthGrantsAssumption DEF ReplaceAssignments, Event, TypeOK
  <2>2. user' \in [Users -> User]
    BY <1>15 DEF ReplaceAssignments, TypeOK, User
  <2> QED BY <1>15, <2>1, <2>2 DEF ReplaceAssignments, TypeOK
<1>16. CASE ChangeSettings
  <2>1. events' \in 0..MaxEvents
    BY <1>16, OAuthGrantsAssumption DEF ChangeSettings, Event, TypeOK
  <2> QED BY <1>16, <2>1 DEF ChangeSettings, TypeOK
<1>17. CASE Tick
  <2>1. now' \in 0..MaxTime
    BY <1>17, OAuthGrantsAssumption DEF Tick, TypeOK
  <2> QED BY <1>17, <2>1 DEF Tick, TypeOK
<1> QED
  BY <1>1, <1>2, <1>3, <1>4, <1>5, <1>6, <1>7, <1>8, <1>9, <1>10, <1>11, <1>12,
     <1>13, <1>14, <1>15, <1>16, <1>17 DEF Next

-----------------------------------------------------------------------------
(* The other parts of the invariant.                                         *)

\* Steps that touch no token, no epoch and nothing of a user but the services.
LEMMA QuietStep ==
  ASSUME IInv, TypeOK', UNCHANGED <<tokens, globalEpoch, accepted>>, now <= now',
         \A u \in Users : /\ user'[u].active = user[u].active
                          /\ user'[u].local = user[u].local
                          /\ user'[u].linked = user[u].linked
                          /\ user'[u].epoch = user[u].epoch,
         \A g \in Grants : intent'[g].status = "open" => grant[g].status = "none"
  PROVE  IInv'
<1> USE DEF tokens
<1>1. now \in Nat /\ now' \in Nat
  BY OAuthGrantsAssumption DEF IInv, TypeOK
<1>2. RowsInOrder'
  BY DEF IInv, RowsInOrder
<1>3. NothingOutlivesItsOwner'
  BY DEF IInv, NothingOutlivesItsOwner
<1>4. ActiveGrantsCurrent'
  BY DEF IInv, ActiveGrantsCurrent, RowsInOrder, EpochsCurrent
<1>5. ReplayDetectable'
  <2>1. \A g \in Grants : family[g].absolute \in Nat /\ family[g].idle \in Nat
    BY DEF IInv, TypeOK, Family
  <2> QED BY <1>1, <2>1 DEF IInv, ReplayDetectable
<1>6. StepsAccepted'
  BY DEF IInv, StepsAccepted, RowsInOrder, EpochsCurrent
<1>7. TotpOnce'
  BY DEF IInv, TotpOnce
<1> QED BY <1>2, <1>3, <1>4, <1>5, <1>6, <1>7 DEF IInv

\* A new grant.
LEMMA InsertStep ==
  ASSUME IInv, TypeOK', UNCHANGED <<identity, now>>,
         NEW g \in Grants, NEW p \in Proof, NEW method \in {"local", "oidc"},
         InsertGrant(g, p, method), grant[g].status = "none",
         p.epoch = user[p.user].epoch, p.global = globalEpoch, user[p.user].active,
         method = "local" => /\ user[p.user].local
                             /\ <<p.user, p.step>> \notin accepted
                             /\ accepted' = accepted \cup {<<p.user, p.step>>},
         method = "oidc" => user[p.user].linked /\ accepted' = accepted,
         \A h \in Grants : intent'[h].status = "open" =>
           intent[h].status = "open" /\ h # g
  PROVE  IInv'
<1> USE DEF identity
<1>1. p.user \in Users /\ p.epoch \in Nat /\ p.global \in Nat
  BY DEF Proof
<1>2. /\ grant'[g].status = "active" /\ grant'[g].user = p.user
      /\ grant'[g].method = method /\ grant'[g].epoch = p.epoch
      /\ grant'[g].global = p.global /\ grant'[g].step = p.step
      /\ \A h \in Grants \ {g} : grant'[h] = grant[h] /\ code'[h] = code[h]
      /\ family' = family /\ refresh' = refresh /\ access' = access
  BY DEF InsertGrant, IInv, TypeOK
<1>3. RowsInOrder'
  BY <1>1, <1>2 DEF IInv, RowsInOrder
<1>4. NothingOutlivesItsOwner'
  BY <1>2 DEF IInv, NothingOutlivesItsOwner
<1>5. ActiveGrantsCurrent'
  BY <1>1, <1>2 DEF IInv, ActiveGrantsCurrent, EpochsCurrent
<1>6. ReplayDetectable'
  BY <1>2 DEF IInv, ReplayDetectable
<1>7. StepsAccepted'
  BY <1>1, <1>2 DEF IInv, StepsAccepted, EpochsCurrent
<1>8. TotpOnce'
  <2> SUFFICES ASSUME NEW h \in Grants, h # g, method = "local",
                      grant[h].status # "none", grant[h].method = "local",
                      grant[h].user = p.user, grant[h].epoch = p.epoch,
                      grant[h].global = p.global
               PROVE  grant[h].step # p.step
    BY <1>2 DEF IInv, TotpOnce
  <2>1. <<grant[h].user, grant[h].step>> \in accepted
    BY DEF IInv, StepsAccepted, EpochsCurrent
  <2> QED BY <2>1
<1> QED BY <1>3, <1>4, <1>5, <1>6, <1>7, <1>8 DEF IInv

\* Revoking grants, alone or with a change of users or epochs.
LEMMA RevokeStep ==
  ASSUME IInv, TypeOK', UNCHANGED <<intent, now>>,
         NEW G \in SUBSET Grants, RevokeGrantSet(G),
         \A g \in Grants \ G : grant[g].user \in Users =>
           user'[grant[g].user] = user[grant[g].user] /\ globalEpoch' = globalEpoch,
         \A u \in Users : user[u].epoch <= user'[u].epoch,
         globalEpoch <= globalEpoch',
         \A a \in accepted : \/ a \in accepted' \/ user[a[1]].epoch < user'[a[1]].epoch
                             \/ globalEpoch < globalEpoch'
  PROVE  IInv'
<1>1. \A g \in Grants :
        /\ grant'[g].status \in {grant[g].status, "revoked"}
        /\ grant'[g].status = "none" <=> grant[g].status = "none"
        /\ grant'[g].status = "active" => grant[g].status = "active" /\ g \notin G
        /\ grant'[g].user = grant[g].user /\ grant'[g].method = grant[g].method
        /\ grant'[g].epoch = grant[g].epoch /\ grant'[g].global = grant[g].global
        /\ grant'[g].step = grant[g].step
        /\ g \notin G => grant'[g] = grant[g]
  BY DEF IInv, TypeOK, RevokeGrantSet, RevokedStatus, Grant
<1>2. \A g \in Grants :
        /\ family'[g].status = "none" <=> family[g].status = "none"
        /\ family'[g].status = "active" => family[g].status = "active" /\ g \notin G
        /\ g \notin G => family'[g] = family[g] /\ refresh'[g] = refresh[g]
                         /\ access'[g] = access[g]
  BY DEF IInv, TypeOK, RevokeGrantSet, RevokedStatus, Family
<1>3. \A g \in Grants, n \in Sequences :
        /\ refresh'[g][n].status = "none" <=> refresh[g][n].status = "none"
        /\ g \in G => refresh'[g][n].status # "active" /\ access'[g][n].status # "active"
  BY DEF IInv, TypeOK, RevokeGrantSet, Revoked, Refresh, Access
<1>4. RowsInOrder'
  BY <1>1, <1>2, <1>3 DEF IInv, RowsInOrder, RevokeGrantSet
<1>5. NothingOutlivesItsOwner'
  BY <1>1, <1>2, <1>3 DEF IInv, NothingOutlivesItsOwner
<1>6. ActiveGrantsCurrent'
  BY <1>1 DEF IInv, ActiveGrantsCurrent, RowsInOrder, EpochsCurrent
<1>7. ReplayDetectable'
  BY <1>2 DEF IInv, ReplayDetectable
<1>8. StepsAccepted'
  <2> SUFFICES ASSUME NEW g \in Grants, grant[g].status # "none",
                      grant[g].method = "local"
               PROVE  /\ grant[g].epoch <= user'[grant[g].user].epoch
                      /\ grant[g].global <= globalEpoch'
                      /\ (grant[g].epoch = user'[grant[g].user].epoch
                          /\ grant[g].global = globalEpoch')
                         => <<grant[g].user, grant[g].step>> \in accepted'
    BY <1>1 DEF StepsAccepted, EpochsCurrent
  <2>1. /\ grant[g].user \in Users /\ grant[g].epoch \in Nat /\ grant[g].global \in Nat
        /\ globalEpoch \in Nat /\ globalEpoch' \in Nat
        /\ user[grant[g].user].epoch \in Nat /\ user'[grant[g].user].epoch \in Nat
    BY DEF IInv, RowsInOrder, TypeOK, Grant, User
  <2>2. /\ grant[g].epoch <= user[grant[g].user].epoch /\ grant[g].global <= globalEpoch
        /\ (grant[g].epoch = user[grant[g].user].epoch /\ grant[g].global = globalEpoch)
             => <<grant[g].user, grant[g].step>> \in accepted
    BY DEF IInv, StepsAccepted, EpochsCurrent
  <2> QED BY <2>1, <2>2
<1>9. TotpOnce'
  BY <1>1 DEF IInv, TotpOnce
<1> QED BY <1>4, <1>5, <1>6, <1>7, <1>8, <1>9 DEF IInv

\* Revocation that changes nothing else.
LEMMA RevokeAlone ==
  ASSUME IInv, TypeOK', NEW G \in SUBSET Grants, RevokeGrantSet(G),
         UNCHANGED <<intent, now, user, globalEpoch, accepted>>
  PROVE  IInv'
<1>1. (\A u \in Users : user[u].epoch \in Nat) /\ globalEpoch \in Nat
  BY DEF IInv, TypeOK, User
<1>2. (\A u \in Users : user[u].epoch <= user'[u].epoch) /\ globalEpoch <= globalEpoch'
  BY <1>1
<1> QED BY <1>2, RevokeStep

\* The grants' lasting fields are the same in both states.
GrantsKept ==
  \A h \in Grants :
    /\ grant'[h].status = grant[h].status /\ grant'[h].user = grant[h].user
    /\ grant'[h].method = grant[h].method /\ grant'[h].epoch = grant[h].epoch
    /\ grant'[h].global = grant[h].global /\ grant'[h].step = grant[h].step

\* Using a grant keeps them.
LEMMA UseKeepsGrants ==
  ASSUME TypeOK, NEW g \in Grants, NEW t, NEW i,
         grant' = [grant EXCEPT ![g] = [@ EXCEPT !.lastUsed = t, !.idle = i]]
  PROVE  GrantsKept
  BY DEF GrantsKept, TypeOK, Grant

\* Steps that change only tokens and times: what remains to be shown of the
\* invariant is about families and tokens.
LEMMA TokenStep ==
  ASSUME IInv, TypeOK', GrantsKept, UNCHANGED <<identity, accepted>>,
         RowsInOrder', NothingOutlivesItsOwner', ReplayDetectable'
  PROVE  IInv'
<1> USE DEF identity
<1>1. ActiveGrantsCurrent'
  BY DEF IInv, ActiveGrantsCurrent, EpochsCurrent, GrantsKept
<1>2. StepsAccepted'
  BY DEF IInv, StepsAccepted, EpochsCurrent, GrantsKept
<1>3. TotpOnce'
  BY DEF IInv, TotpOnce, GrantsKept
<1> QED BY <1>1, <1>2, <1>3 DEF IInv

\* exchangeAuthorizationCode: the family did not exist.
LEMMA ExchangeStep ==
  ASSUME IInv, TypeOK', NEW g \in Grants, Exchange(g)
  PROVE  IInv'
<1> USE DEF identity, pending
<1>1. GrantsKept
  BY UseKeepsGrants DEF Exchange, IInv
<1>2. /\ code[g].status = "open" /\ grant[g].status = "active"
      /\ 0 \in Sequences
  BY OAuthGrantsAssumption DEF Exchange, MayExchange, LiveGrants, Sequences
<1>3. \A n \in Sequences : refresh[g][n].status = "none"
  BY <1>2 DEF IInv, RowsInOrder
<1>4. /\ family'[g].status = "active" /\ family'[g].sequence = 0
      /\ code'[g].status = "consumed"
      /\ \A h \in Grants \ {g} : /\ family'[h] = family[h] /\ code'[h] = code[h]
                                 /\ refresh'[h] = refresh[h] /\ access'[h] = access[h]
  BY DEF Exchange, IssuePair, IInv, TypeOK, Short
<1>5. /\ refresh'[g][0].status = "active"
      /\ \A n \in Sequences \ {0} : refresh'[g][n] = refresh[g][n]
  BY <1>2 DEF Exchange, IssuePair, IInv, TypeOK
<1>6. intent' = intent /\ now' = now
  BY DEF Exchange
<1>7. RowsInOrder'
  BY <1>1, <1>2, <1>4, <1>5, <1>6 DEF IInv, RowsInOrder, GrantsKept
<1>8. NothingOutlivesItsOwner'
  BY <1>1, <1>2, <1>4 DEF IInv, NothingOutlivesItsOwner, GrantsKept
<1>9. ReplayDetectable'
  <2>1. \A n \in Sequences : ~(n < 0)
    BY OAuthGrantsAssumption DEF Sequences
  <2> QED BY <1>3, <1>4, <1>5, <1>6, <2>1 DEF IInv, ReplayDetectable
<1> QED BY <1>1, <1>7, <1>8, <1>9, TokenStep DEF Exchange

\* What Live says of the family.
LEMMA LiveFamily ==
  ASSUME IInv, NEW g \in Grants, Live(g)
  PROVE  /\ grant[g].status = "active" /\ family[g].status = "active"
         /\ family[g].absolute > now /\ family[g].idle > now
         /\ \A n \in Sequences :
              refresh[g][n].status = IF n < family[g].sequence THEN "used"
                                     ELSE IF n = family[g].sequence THEN "active"
                                     ELSE "none"
<1>1. now \in Nat /\ family[g].absolute \in Nat /\ family[g].idle \in Nat
  BY Numbers DEF IInv, TypeOK, Family
<1>2. family[g].absolute > now /\ family[g].idle > now
  BY <1>1, Lifetimes DEF Live, IInv
<1> QED BY <1>2 DEF Live, IInv, ReplayDetectable

\* rotateRefreshToken: a replay, or the next pair.
LEMMA RotateStep ==
  ASSUME IInv, TypeOK', NEW g \in Grants, NEW n \in Sequences, Rotate(g, n)
  PROVE  IInv'
<1> USE DEF identity, pending
<1>1. UNCHANGED <<intent, code, now, user, globalEpoch, accepted>>
  BY DEF Rotate
<1>2. CASE RevokeReplayed(g) /\ UNCHANGED <<code, grant>>
           /\ family[g].status = "active"
  <2>1. GrantsKept
    BY <1>2 DEF GrantsKept
  <2>2. /\ family'[g].status = "revoked"
        /\ \A h \in Grants \ {g} : /\ family'[h] = family[h]
                                   /\ refresh'[h] = refresh[h] /\ access'[h] = access[h]
    BY <1>2 DEF RevokeReplayed, IInv, TypeOK, Family
  <2>3. \A m \in Sequences : refresh'[g][m].status # "active"
                             /\ access'[g][m].status # "active"
    BY <1>2 DEF RevokeReplayed, Revoked, IInv, TypeOK, Refresh, Access
  <2>4. RowsInOrder'
    BY <1>1, <1>2, <2>2 DEF IInv, RowsInOrder
  <2>5. NothingOutlivesItsOwner'
    BY <1>2, <2>2, <2>3 DEF IInv, NothingOutlivesItsOwner
  <2>6. ReplayDetectable'
    BY <1>1, <2>2 DEF IInv, ReplayDetectable
  <2> QED BY <1>1, <2>1, <2>4, <2>5, <2>6, TokenStep
<1>3. CASE /\ n = family[g].sequence /\ Live(g) /\ n < MaxSequence
           /\ IssuePair(g, n + 1, [refresh[g] EXCEPT ![n].status = "used"])
           /\ Touch(g, n + 1)
  <2>1. GrantsKept
    BY <1>3, UseKeepsGrants DEF Touch, IInv
  <2>2. n \in Nat /\ n + 1 \in Sequences /\ \A m \in Sequences : m \in Nat
    BY <1>3, OAuthGrantsAssumption DEF Sequences
  <2>3. /\ family'[g].status = family[g].status /\ family'[g].sequence = n + 1
        /\ \A h \in Grants \ {g} : /\ family'[h] = family[h]
                                   /\ refresh'[h] = refresh[h] /\ access'[h] = access[h]
    BY <1>3 DEF Touch, IssuePair, IInv, TypeOK, Family
  <2>4. /\ refresh'[g][n + 1].status = "active" /\ refresh'[g][n].status = "used"
        /\ \A m \in Sequences \ {n, n + 1} : refresh'[g][m] = refresh[g][m]
    <3>1. refresh[g] \in [Sequences -> Refresh] /\ refresh[g][n] \in Refresh
      BY DEF IInv, TypeOK
    <3>2. refresh'[g] = [[refresh[g] EXCEPT ![n].status = "used"]
                           EXCEPT ![n + 1] = [status |-> "active", issued |-> now]]
      BY <1>3 DEF IssuePair, IInv, TypeOK
    <3> QED BY <2>2, <3>1, <3>2 DEF Refresh
  <2>5. RowsInOrder'
    BY <1>1, <1>3, <2>1, <2>3, LiveFamily DEF IInv, RowsInOrder, GrantsKept
  <2>6. NothingOutlivesItsOwner'
    BY <1>3, <2>1, <2>3, LiveFamily DEF IInv, NothingOutlivesItsOwner, GrantsKept
  <2>7. ReplayDetectable'
    <3>1. \A m \in Sequences :
            refresh'[g][m].status = IF m < n + 1 THEN "used"
                                    ELSE IF m = n + 1 THEN "active" ELSE "none"
      BY <1>3, <2>2, <2>4, LiveFamily
    <3> QED BY <1>1, <2>3, <3>1 DEF IInv, ReplayDetectable
  <2> QED BY <1>1, <2>1, <2>5, <2>6, <2>7, TokenStep
<1> QED BY <1>2, <1>3 DEF Rotate

\* authenticateAccessToken.
LEMMA AuthenticateStep ==
  ASSUME IInv, TypeOK', NEW g \in Grants, NEW n \in Sequences, AuthenticateAccess(g, n)
  PROVE  IInv'
<1> USE DEF identity, pending
<1>1. /\ Live(g) /\ Touch(g, family[g].sequence)
      /\ UNCHANGED <<intent, code, now, user, globalEpoch, accepted, refresh, access>>
  BY DEF AuthenticateAccess
<1>2. GrantsKept
  BY <1>1, UseKeepsGrants DEF Touch, IInv
<1>3. /\ family'[g].status = family[g].status
      /\ family'[g].sequence = family[g].sequence
      /\ \A h \in Grants \ {g} : family'[h] = family[h]
  BY <1>1 DEF Touch, IInv, TypeOK, Family
<1>4. RowsInOrder'
  BY <1>1, <1>2, <1>3 DEF IInv, RowsInOrder, GrantsKept
<1>5. NothingOutlivesItsOwner'
  BY <1>1, <1>2, <1>3 DEF IInv, NothingOutlivesItsOwner, GrantsKept
<1>6. ReplayDetectable'
  BY <1>1, <1>3, LiveFamily DEF IInv, ReplayDetectable
<1> QED BY <1>1, <1>2, <1>4, <1>5, <1>6, TokenStep

\* sweepExpired.
LEMMA SweepStep ==
  ASSUME IInv, TypeOK', SweepExpired
  PROVE  IInv'
<1> USE DEF identity
<1>1. PICK c, i, a, r : r \subseteq SpentRefresh /\ Sweep(c, i, a, r)
  BY SweepTakesSpent
<1>2. /\ UNCHANGED <<grant, family, now, user, globalEpoch, accepted>>
      /\ \A g \in Grants : /\ code'[g].status = "open" => code[g].status = "open"
                           /\ intent'[g].status = "open" => intent[g].status = "open"
  BY <1>1 DEF Sweep, NoShort
<1>3. \A g \in Grants, n \in Sequences :
        /\ refresh'[g][n].status = refresh[g][n].status \/ refresh'[g][n].status = "none"
        /\ access'[g][n].status = access[g][n].status \/ access'[g][n].status = "none"
        /\ <<g, n>> \notin r => refresh'[g][n] = refresh[g][n]
  BY <1>1 DEF Sweep, NoRefresh, NoAccess
<1>4. RowsInOrder'
  <2> SUFFICES ASSUME NEW g \in Grants
               PROVE  /\ intent'[g].status = "open" => grant[g].status = "none"
                      /\ grant[g].status = "none" => family[g].status = "none"
                      /\ grant[g].status # "none" => grant[g].user \in Users
                      /\ code'[g].status = "open" => family[g].status = "none"
                      /\ family[g].status = "none" =>
                           \A n \in Sequences : refresh'[g][n].status = "none"
    BY <1>2 DEF RowsInOrder
  <2>1. family[g].status = "none" =>
          \A n \in Sequences : refresh'[g][n].status = "none"
    BY <1>3 DEF IInv, RowsInOrder
  <2> QED BY <1>2, <2>1 DEF IInv, RowsInOrder
<1>5. NothingOutlivesItsOwner'
  <2> SUFFICES ASSUME NEW g \in Grants
               PROVE  /\ family[g].status = "active" => grant[g].status = "active"
                      /\ \A n \in Sequences :
                           "active" \in {refresh'[g][n].status, access'[g][n].status} =>
                             family[g].status = "active"
    BY <1>2 DEF NothingOutlivesItsOwner
  <2>1. family[g].status = "active" => grant[g].status = "active"
    BY DEF IInv, NothingOutlivesItsOwner
  <2>2. ASSUME NEW n \in Sequences,
               refresh'[g][n].status = "active" \/ access'[g][n].status = "active"
        PROVE  family[g].status = "active"
    <3>1. refresh[g][n].status = "active" \/ access[g][n].status = "active"
      BY <1>3, <2>2
    <3> QED BY <3>1 DEF IInv, NothingOutlivesItsOwner
  <2> QED BY <2>1, <2>2
<1>6. ReplayDetectable'
  <2> SUFFICES ASSUME NEW g \in Grants, family[g].status = "active",
                      family[g].absolute > now, family[g].idle > now,
                      NEW n \in Sequences
               PROVE  refresh'[g][n] = refresh[g][n]
    BY <1>2 DEF IInv, ReplayDetectable
  <2>1. family[g].absolute \in Nat /\ family[g].idle \in Nat /\ now \in Nat
    BY Numbers DEF IInv, TypeOK, Family
  <2>2. <<g, n>> \notin r
    BY <1>1, <2>1 DEF SpentRefresh
  <2> QED BY <1>3, <2>2
<1>7. GrantsKept
  BY <1>2 DEF GrantsKept
<1> QED BY <1>2, <1>4, <1>5, <1>6, <1>7, TokenStep

-----------------------------------------------------------------------------
(* Theorems.                                                                 *)

\* The tables start empty.
LEMMA Initially == Init => IInv
<1> SUFFICES ASSUME Init PROVE IInv
  OBVIOUS
<1>1. /\ 0 \in Nat /\ 0 \in 0..MaxTime /\ 0 \in 0..MaxEvents /\ 0 \in Sequences
  BY OAuthGrantsAssumption DEF Sequences
<1>2. /\ NoShort \in Short /\ NoGrant \in Grant /\ NoFamily \in Family
      /\ NoRefresh \in Refresh /\ NoAccess \in Access
  BY <1>1 DEF NoShort, NoGrant, NoFamily, NoRefresh, NoAccess,
              Short, Grant, Family, Refresh, Access
<1>3. user \in [Users -> User]
  <2>1. [active : {TRUE}, local : BOOLEAN, linked : {TRUE}, service : {TRUE},
         epoch : {0}] \subseteq User
    BY <1>1 DEF User
  <2> QED BY <2>1 DEF Init
<1>4. TypeOK
  BY <1>1, <1>2, <1>3 DEF Init, TypeOK
<1>5. /\ NoShort.status = "none" /\ NoGrant.status = "none"
      /\ NoFamily.status = "none" /\ NoRefresh.status = "none"
      /\ NoAccess.status = "none"
  BY DEF NoShort, NoGrant, NoFamily, NoRefresh, NoAccess
<1>6. \A g \in Grants : /\ intent[g].status = "none" /\ code[g].status = "none"
                        /\ grant[g].status = "none" /\ family[g].status = "none"
                        /\ \A n \in Sequences : /\ refresh[g][n].status = "none"
                                                /\ access[g][n].status = "none"
  BY <1>5 DEF Init
<1> QED BY <1>4, <1>6 DEF IInv, RowsInOrder, NothingOutlivesItsOwner,
                          ActiveGrantsCurrent, ReplayDetectable, StepsAccepted, TotpOnce

\* Every step keeps the invariant.
LEMMA Inductive == IInv /\ [Next]_vars => IInv'
<1> SUFFICES ASSUME IInv, [Next]_vars PROVE IInv'
  OBVIOUS
<1> USE DEF identity, pending
<1>0. TypeOK'
  BY TypeStep DEF IInv
<1>n. /\ now \in Nat /\ now <= now /\ globalEpoch \in Nat
      /\ \A u \in Users : user[u].epoch \in Nat
  BY Numbers DEF IInv, TypeOK, User
<1>1. CASE UNCHANGED vars
  BY <1>0, <1>1, <1>n, QuietStep DEF vars, IInv, RowsInOrder
<1>2. ASSUME NEW g \in Grants, NEW r \in Redirects, CreateExternalIntent(g, r)
      PROVE  IInv'
  <2>1. \A h \in Grants : intent'[h].status = "open" => grant[h].status = "none"
    BY <1>2 DEF CreateExternalIntent, IInv, TypeOK, RowsInOrder, NoShort
  <2> QED BY <1>0, <1>2, <1>n, <2>1, QuietStep DEF CreateExternalIntent
<1>3. ASSUME NEW g \in Grants, NEW u \in Users, AuthorizeExternalIntent(g, u)
      PROVE  IInv'
  <2>1. /\ CurrentProof(u, 0) \in Proof /\ CurrentProof(u, 0).user = u
        /\ CurrentProof(u, 0).epoch = user[u].epoch
        /\ CurrentProof(u, 0).global = globalEpoch
    BY DEF CurrentProof, Proof, IInv, TypeOK, User
  <2>2. \A h \in Grants : intent'[h].status = "open" =>
          intent[h].status = "open" /\ h # g
    BY <1>3 DEF AuthorizeExternalIntent, IInv, TypeOK, Short
  <2>3. /\ grant[g].status = "none" /\ user[u].active /\ user[u].linked
        /\ accepted' = accepted /\ InsertGrant(g, CurrentProof(u, 0), "oidc")
        /\ UNCHANGED <<user, globalEpoch, now>>
    BY <1>3 DEF AuthorizeExternalIntent, EligibleForGrant, IInv, RowsInOrder
  <2> QED BY <1>0, <2>1, <2>2, <2>3, InsertStep
<1>4. ASSUME NEW u \in Users, VerifyMcpProof(u)
      PROVE  IInv'
  BY <1>0, <1>4, <1>n, QuietStep DEF VerifyMcpProof, IInv, RowsInOrder
<1>5. ASSUME NEW g \in Grants, NEW p \in proofs, NEW r \in Redirects,
             AuthorizeLocal(g, p, r)
      PROVE  IInv'
  <2>1. UNCHANGED <<user, globalEpoch, now, intent>>
    BY <1>5 DEF AuthorizeLocal
  <2>2. CASE /\ MayAuthorize(p) /\ grant[g].status = "none" /\ intent[g].status = "none"
             /\ InsertGrant(g, p, "local")
             /\ accepted' = accepted \cup {<<p.user, p.step>>}
    <3>1. p \in Proof
      BY DEF IInv, TypeOK
    <3>2. /\ p.epoch = user[p.user].epoch /\ p.global = globalEpoch
          /\ user[p.user].active /\ user[p.user].local
          /\ <<p.user, p.step>> \notin accepted
      BY <2>2 DEF MayAuthorize, LocalEligible
    <3>3. \A h \in Grants : intent'[h].status = "open" =>
            intent[h].status = "open" /\ h # g
      BY <2>1, <2>2
    <3> QED BY <1>0, <2>1, <2>2, <3>1, <3>2, <3>3, InsertStep
  <2>3. CASE UNCHANGED <<metadata, accepted, tokens>>
    BY <1>0, <1>n, <2>1, <2>3, QuietStep DEF IInv, RowsInOrder
  <2> QED BY <1>5, <2>2, <2>3 DEF AuthorizeLocal
<1>6. ASSUME NEW g \in Grants, RevokeGrant(g)
      PROVE  IInv'
  <2>1. /\ RevokeGrantSet({g}) /\ {g} \in SUBSET Grants
        /\ UNCHANGED <<intent, now, user, globalEpoch, accepted>>
    BY <1>6 DEF RevokeGrant
  <2> QED BY <1>0, <1>n, <2>1, RevokeAlone
<1>7. ASSUME NEW u \in Users, RevokeOwnGrants(u)
      PROVE  IInv'
  <2>1. /\ RevokeGrantSet(GrantsOf({u})) /\ GrantsOf({u}) \in SUBSET Grants
        /\ UNCHANGED <<intent, now, user, globalEpoch, accepted>>
    BY <1>7 DEF RevokeOwnGrants, GrantsOf
  <2> QED BY <1>0, <1>n, <2>1, RevokeAlone
<1>8. CASE RevokeGrantBulk
  <2>1. /\ RevokeGrantSet(Grants) /\ Grants \in SUBSET Grants
        /\ UNCHANGED <<intent, now, user, globalEpoch, accepted>>
    BY <1>8 DEF RevokeGrantBulk
  <2> QED BY <1>0, <1>n, <2>1, RevokeAlone
<1>9. ASSUME NEW u \in Users, NEW changed \in Changes(user[u]), ChangeUser(u, changed)
      PROVE  IInv'
  <2>1. /\ user'[u].epoch = user[u].epoch + 1
        /\ \A v \in Users \ {u} : user'[v] = user[v]
    <3>1. changed \in User /\ changed.epoch = user[u].epoch
      BY ChangesType DEF IInv, TypeOK
    <3> QED BY <1>9, <3>1 DEF ChangeUser, IInv, TypeOK, User
  <2>2. \A v \in Users : user[v].epoch <= user'[v].epoch
    BY <1>n, <2>1
  <2>3. \A a \in accepted : a \in accepted' \/ user[a[1]].epoch < user'[a[1]].epoch
    BY <1>9, <1>n, <2>1 DEF ChangeUser
  <2>4. \A g \in Grants \ GrantsOf({u}) : grant[g].user \in Users =>
          user'[grant[g].user] = user[grant[g].user]
    BY <2>1 DEF GrantsOf
  <2>5. /\ RevokeGrantSet(GrantsOf({u})) /\ GrantsOf({u}) \in SUBSET Grants
        /\ UNCHANGED <<intent, now, globalEpoch>>
    BY <1>9 DEF ChangeUser, GrantsOf
  <2>6. \A g \in Grants \ GrantsOf({u}) : grant[g].user \in Users =>
          user'[grant[g].user] = user[grant[g].user] /\ globalEpoch' = globalEpoch
    BY <2>4, <2>5
  <2>7. globalEpoch <= globalEpoch'
    BY <1>n, <2>5
  <2>8. \A a \in accepted : \/ a \in accepted' \/ user[a[1]].epoch < user'[a[1]].epoch
                             \/ globalEpoch < globalEpoch'
    BY <2>3
  <2> QED BY <1>0, <2>2, <2>5, <2>6, <2>7, <2>8, RevokeStep
<1>10. ASSUME NEW kind \in {"password_change", "totp_reset"}, GlobalSecurityEvent(kind)
       PROVE  IInv'
  <2>1. \A v \in Users : user'[v].epoch = user[v].epoch
    <3>1. CASE kind = "totp_reset"
      BY <1>10, <3>1 DEF GlobalSecurityEvent, IInv, TypeOK, User
    <3>2. CASE kind # "totp_reset"
      BY <1>10, <3>2 DEF GlobalSecurityEvent
    <3> QED BY <3>1, <3>2
  <2>2. \A v \in Users : user[v].epoch <= user'[v].epoch
    BY <1>n, <2>1
  <2>3. /\ RevokeGrantSet(Grants) /\ Grants \in SUBSET Grants
        /\ UNCHANGED <<intent, now>> /\ globalEpoch' = globalEpoch + 1
    BY <1>10 DEF GlobalSecurityEvent
  <2>4. globalEpoch < globalEpoch' /\ globalEpoch <= globalEpoch'
    BY <1>n, <2>3
  <2> QED BY <1>0, <2>2, <2>3, <2>4, RevokeStep
<1>11. ASSUME NEW u \in Users, ReplaceAssignments(u)
       PROVE  IInv'
  <2>1. \A v \in Users : /\ user'[v].active = user[v].active
                         /\ user'[v].local = user[v].local
                         /\ user'[v].linked = user[v].linked
                         /\ user'[v].epoch = user[v].epoch
    BY <1>11 DEF ReplaceAssignments, IInv, TypeOK, User
  <2> QED BY <1>0, <1>11, <1>n, <2>1, QuietStep DEF ReplaceAssignments, IInv, RowsInOrder
<1>12. CASE ChangeSettings
  BY <1>0, <1>12, <1>n, QuietStep DEF ChangeSettings, IInv, RowsInOrder
<1>13. CASE Tick
  <2>1. now <= now'
    BY <1>13, <1>n DEF Tick
  <2> QED BY <1>0, <1>13, <2>1, QuietStep DEF Tick, IInv, RowsInOrder
<1> QED
  BY <1>0, <1>1, <1>2, <1>3, <1>4, <1>5, <1>6, <1>7, <1>8, <1>9, <1>10, <1>11, <1>12,
     <1>13, ExchangeStep, RotateStep, AuthenticateStep, SweepStep DEF Next

\* Together.
LEMMA Invariance == Spec => []IInv
  BY Initially, Inductive, PTL DEF Spec

\* Every table of databaseOAuth.ts holds rows of its shape.
THEOREM TypeCorrect == Spec => []TypeOK
<1>1. IInv => TypeOK
  BY DEF IInv
<1> QED BY <1>1, Invariance, PTL

\* rotateRefreshToken and sweepExpired never lose the evidence of a replay.
THEOREM ReplaysAreDetectable == Spec => []ReplayDetectable
<1>1. IInv => ReplayDetectable
  BY DEF IInv
<1> QED BY <1>1, Invariance, PTL

\* The triggers and the epochs compared by authorizeLocal and
\* authorizeExternalIntent leave no active grant of a user who changed.
THEOREM GrantsAreCurrent == Spec => []ActiveGrantsCurrent
<1>1. IInv => ActiveGrantsCurrent
  BY DEF IInv
<1> QED BY <1>1, Invariance, PTL

\* Every way to revoke reaches all that depends on what it revokes.
THEOREM RevocationIsComplete == Spec => []NothingOutlivesItsOwner
<1>1. IInv => NothingOutlivesItsOwner
  BY DEF IInv
<1> QED BY <1>1, Invariance, PTL

\* authorizeLocal accepts a TOTP step once per authenticator.
THEOREM StepsAreUsedOnce == Spec => []TotpOnce
<1>1. IInv => TotpOnce
  BY DEF IInv
<1> QED BY <1>1, Invariance, PTL

-----------------------------------------------------------------------------
(* No revival.                                                               *)

\* A grant and family that do not change stay spent: time only advances.
LEMMA SpentInTime ==
  ASSUME IInv, TypeOK', now <= now', NEW g \in Grants,
         family'[g] = family[g], grant'[g] = grant[g]
  PROVE  StaysSpent(g)
<1>1. now \in Nat /\ now' \in Nat /\ family[g].absolute \in Nat /\ family[g].idle \in Nat
  BY Numbers DEF IInv, TypeOK, Family
<1> QED BY <1>1 DEF StaysSpent, Spent

\* Revocation spends a family and leaves what is revoked alone.
LEMMA RevocationSpends ==
  ASSUME IInv, NEW G \in SUBSET Grants, RevokeGrantSet(G), now' = now, NEW g \in Grants
  PROVE  StaysSpent(g)
<1>1. family[g] \in Family /\ grant[g] \in Grant
  BY DEF IInv, TypeOK
<1>2. /\ family'[g] = family[g] \/ family'[g] = RevokedStatus(family[g])
      /\ grant'[g] = grant[g] \/ grant'[g] = RevokedStatus(grant[g])
  BY DEF RevokeGrantSet
<1>3. grant[g].status = "revoked" => RevokedStatus(grant[g]) = grant[g]
  BY <1>1 DEF RevokedStatus, Grant
<1>4. RevokedStatus(family[g]).status = IF family[g].status = "active" THEN "revoked"
                                        ELSE family[g].status
  BY <1>1 DEF RevokedStatus, Family
<1>5. [RevokedStatus(family[g]) EXCEPT !.status = "revoked"]
        = [family[g] EXCEPT !.status = "revoked"]
  BY <1>1 DEF RevokedStatus, Family
<1>6. Spent(g) => Spent(g)'
  BY <1>2, <1>4 DEF Spent, RevokedStatus
<1> QED BY <1>2, <1>3, <1>5, <1>6 DEF StaysSpent

\* What exchangeAuthorizationCode, rotateRefreshToken and authenticateAccessToken
\* use is not spent.
LEMMA LiveIsNotSpent ==
  ASSUME IInv, NEW g \in Grants, Live(g) \/ MayExchange(g)
  PROVE  ~Spent(g) /\ grant[g].status = "active"
<1>1. now \in Nat /\ family[g].absolute \in Nat /\ family[g].idle \in Nat
  BY Numbers DEF IInv, TypeOK, Family
<1>2. CASE Live(g)
  BY <1>1, <1>2, LiveFamily DEF Spent
<1>3. CASE MayExchange(g)
  BY <1>3 DEF MayExchange, LiveGrants, Spent, IInv, RowsInOrder
<1> QED BY <1>2, <1>3

\* Every step leaves what is spent spent.
LEMMA NothingRevives ==
  ASSUME IInv, TypeOK', [Next]_vars, NEW g \in Grants
  PROVE  StaysSpent(g)
<1> USE DEF identity, pending, tokens
<1>0. now \in Nat /\ now <= now
  BY Numbers DEF IInv, TypeOK
<1>1. CASE now <= now' /\ UNCHANGED <<family, grant>>
  BY <1>1, SpentInTime
<1>2. ASSUME NEW h \in Grants, NEW p, NEW m, InsertGrant(h, p, m), now' = now,
             grant[h].status = "none"
      PROVE  StaysSpent(g)
  <2>1. CASE g # h
    BY <1>0, <1>2, <2>1, SpentInTime DEF InsertGrant, IInv, TypeOK
  <2>2. CASE g = h
    BY <1>2, <2>2 DEF StaysSpent, Spent, InsertGrant, IInv, RowsInOrder
  <2> QED BY <2>1, <2>2
<1>3. ASSUME NEW h \in Grants, Live(h) \/ MayExchange(h), now' = now,
             g # h => family'[g] = family[g] /\ grant'[g] = grant[g]
      PROVE  StaysSpent(g)
  <2>1. CASE g # h
    BY <1>0, <1>3, <2>1, SpentInTime
  <2>2. CASE g = h
    BY <1>3, <2>2, LiveIsNotSpent DEF StaysSpent
  <2> QED BY <2>1, <2>2
<1>4. ASSUME NEW h \in Grants, NEW n \in Sequences, Rotate(h, n)
      PROVE  StaysSpent(g)
  <2>1. CASE RevokeReplayed(h) /\ UNCHANGED grant
    <3>1. now' = now /\ family[g] \in Family
      BY <1>4 DEF Rotate, IInv, TypeOK
    <3>2. CASE g # h
      BY <1>0, <2>1, <3>1, <3>2, SpentInTime DEF RevokeReplayed, IInv, TypeOK
    <3>3. CASE g = h
      BY <2>1, <3>1, <3>3 DEF RevokeReplayed, StaysSpent, Spent, IInv, TypeOK, Family
    <3> QED BY <3>2, <3>3
  <2>2. CASE Live(h) /\ Touch(h, n + 1)
    BY <1>3, <1>4, <2>2 DEF Rotate, Touch, IInv, TypeOK
  <2> QED BY <1>4, <2>1, <2>2 DEF Rotate
<1>5. ASSUME NEW h \in Grants, NEW n \in Sequences, AuthenticateAccess(h, n)
      PROVE  StaysSpent(g)
  BY <1>3, <1>5 DEF AuthenticateAccess, Touch, IInv, TypeOK
<1>6. ASSUME NEW h \in Grants, Exchange(h)
      PROVE  StaysSpent(g)
  BY <1>3, <1>6 DEF Exchange, IInv, TypeOK
<1>7. ASSUME NEW h \in Grants, NEW u \in Users, AuthorizeExternalIntent(h, u)
      PROVE  StaysSpent(g)
  BY <1>2, <1>7 DEF AuthorizeExternalIntent, IInv, RowsInOrder
<1>8. ASSUME NEW h \in Grants, NEW p \in proofs, NEW r \in Redirects,
             AuthorizeLocal(h, p, r)
      PROVE  StaysSpent(g)
  BY <1>0, <1>1, <1>2, <1>8 DEF AuthorizeLocal
<1>9. SweepExpired => StaysSpent(g)
  BY <1>0, <1>1, SweepTakesSpent DEF Sweep
<1>10. ASSUME NEW h \in Grants, RevokeGrant(h)
       PROVE  StaysSpent(g)
  BY <1>10, RevocationSpends DEF RevokeGrant
<1>11. ASSUME NEW u \in Users, NEW w,
              RevokeOwnGrants(u) \/ ChangeUser(u, w)
       PROVE  StaysSpent(g)
  BY <1>11, RevocationSpends DEF RevokeOwnGrants, ChangeUser, GrantsOf
<1>12. ASSUME NEW kind, RevokeGrantBulk \/ GlobalSecurityEvent(kind)
       PROVE  StaysSpent(g)
  BY <1>12, RevocationSpends DEF RevokeGrantBulk, GlobalSecurityEvent
<1>13. CASE Tick
  BY <1>0, <1>1, <1>13 DEF Tick
<1>14. CASE ChangeSettings \/ \E u \in Users : ReplaceAssignments(u)
  BY <1>0, <1>1, <1>14 DEF ChangeSettings, ReplaceAssignments
<1>15. CASE \/ \E h \in Grants, r \in Redirects : CreateExternalIntent(h, r)
            \/ \E u \in Users : VerifyMcpProof(u)
            \/ UNCHANGED vars
  BY <1>0, <1>1, <1>15 DEF CreateExternalIntent, VerifyMcpProof, vars
<1> QED
  BY <1>4, <1>5, <1>6, <1>7, <1>8, <1>9, <1>10, <1>11, <1>12, <1>13, <1>14, <1>15 DEF Next

\* Nothing databaseOAuth.ts or accessManagement.ts does brings an expired or revoked
\* family or a revoked grant back.
THEOREM SpentStaysSpent == Spec => NoRevival
<1>1. IInv /\ IInv' /\ [Next]_vars => [\A g \in Grants : StaysSpent(g)]_vars
  <2>1. IInv' => TypeOK'
    BY DEF IInv
  <2> QED BY <2>1, NothingRevives
<1> QED BY <1>1, Invariance, PTL DEF Spec, NoRevival
=============================================================================
