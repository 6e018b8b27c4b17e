---------------------------- MODULE AccessControl ----------------------------
(***************************************************************************)
(* Who may send which request to one service: its groups and assignments   *)
(* (groupAssignments.ts, principalSelectors.ts), the assignments of its    *)
(* credentials, its policies and their rules (policyManagement.ts), the    *)
(* evaluator (policy.ts), and the runtime snapshot from which the gateway  *)
(* answers (runtimeSnapshots.ts, gateway.ts).                              *)
(*                                                                         *)
(* A management operation is one transaction.  Every mutation carries the  *)
(* version its author read: a stale one, a replayed one and one out of     *)
(* scope change nothing here, so versions and keys are left out.  Methods, *)
(* hosts and paths of a rule are the set of requests that they match.      *)
(*                                                                         *)
(* Group memberships and user states are read live by the runtime; all     *)
(* else comes from the snapshot, rebuilt when an event is polled.          *)
(*                                                                         *)
(* Bounds: MaxChanges management operations, Profiles and Choices.         *)
(***************************************************************************)
EXTENDS Integers, FiniteSets

CONSTANTS Users, Groups, Creds,
          Slots,             \* identities of policies: 1..MAX_POLICIES_PER_SERVICE
          RuleSlots,         \* identities of rules: 1..MAX_RULES_PER_POLICY
          MaxRulesTotal,     \* MAX_RULES_TOTAL
          MaxProjected,      \* the policies canonicalRuntimeSnapshot accepts
          MaxPriority,       \* priorities are of the size of a billion at most
          Profiles,          \* the rules that administrators write
          Choices,           \* the selectors that administrators send
          MaxChanges

VARIABLES account,   \* users.status of the ordinary users
          team,      \* service_groups and service_group_members
          grant,     \* service_principal_assignments
          cred,      \* service_credentials with their assignments
          policy,    \* policies with their rules
          authgen,   \* authorization_generation of the service
          told,      \* undispatched invalidation events
          served,    \* the active runtime snapshot
          changes    \* management operations so far (bound)

vars == <<account, team, grant, cred, policy, authgen, told, served, changes>>

Sent == {"read", "write"}
Boundaries == {"service"} \cup Creds

-----------------------------------------------------------------------------
(***************************************************************************)
(* Principal selectors.                                                    *)
(***************************************************************************)
Selectors == [all : BOOLEAN, groups : SUBSET Groups, users : SUBSET Users]

Selector(all, groups, users) == [all |-> all, groups |-> groups, users |-> users]

Unassigned == Selector(FALSE, {}, {})

Everyone == Selector(TRUE, {}, {})

activeMemberships(u) == {g \in Groups : team[g].life = "active" /\ u \in team[g].members}

Contributes(sel, u) ==
  account[u] = "active" /\ (sel.all \/ u \in sel.users \/ sel.groups \cap activeMemberships(u) # {})

selectorApplies(sel, u) ==
  sel.all \/ u \in sel.users \/ sel.groups \cap activeMemberships(u) # {}

effectiveUserIds == {u \in Users : Contributes(grant, u)}

effectiveCredentialUsers(c) == {u \in effectiveUserIds : selectorApplies(cred[c].sel, u)}

ActiveGroups(gs) == \A g \in gs : team[g].life = "active"

validateSelectorTargets(sel) ==
  ActiveGroups(sel.groups) /\ \A u \in sel.users : account[u] = "active"

\* A rule may name only users who have the service.
validateRuleTargets(sel) == ActiveGroups(sel.groups) /\ sel.users \subseteq effectiveUserIds

Without(sel, gs, us) == [sel EXCEPT !.groups = @ \ gs, !.users = @ \ us]

-----------------------------------------------------------------------------
(***************************************************************************)
(* Rules, policies and the evaluator.                                      *)
(***************************************************************************)
NoRule ==
  [effect |-> "none", priority |-> 0, enabled |-> FALSE, match |-> {}, sel |-> Unassigned]

\* What the schema accepts.
Rules == [effect : {"allow", "deny"}, priority : -MaxPriority .. MaxPriority, enabled : BOOLEAN,
          match : SUBSET Sent, sel : Selectors]

\* An enabled rule needs a selector.
ruleBody(rule) == rule.enabled => rule.sel # Unassigned

RuleAllowed(rule) == ruleBody(rule) /\ validateRuleTargets(rule.sel)

NoRules == [i \in RuleSlots |-> NoRule]
NoPolicy == [life |-> "none", boundary |-> "service", mode |-> "deny", gen |-> 0, rules |-> NoRules]

RulesOf(rules) == {rules[i] : i \in {j \in RuleSlots : rules[j] # NoRule}}
RuleCount(rules) == Cardinality({i \in RuleSlots : rules[i] # NoRule})

totalRules == Cardinality({s \in Slots \X RuleSlots : policy[s[1]].rules[s[2]] # NoRule})

ActivePolicies == {p \in Slots : policy[p].life = "active"}

\* The boundary as the evaluator sees it; without a policy it denies.
policyBoundarySnapshot(b) ==
  IF \E p \in ActivePolicies : policy[p].boundary = b
  THEN LET p == CHOOSE q \in ActivePolicies : policy[q].boundary = b
       IN [mode |-> policy[p].mode, rules |-> RulesOf(policy[p].rules)]
  ELSE [mode |-> "deny", rules |-> {}]

explainRule(rule, u, q) == rule.enabled /\ selectorApplies(rule.sel, u) /\ q \in rule.match

\* A variant of evaluateBoundary: an allow wins an equal-priority tie.
evaluateBoundaryAllowWins(boundary, u, q) ==
  LET matches == {rule \in boundary.rules : explainRule(rule, u, q)}
      selected == {rule \in matches : \A other \in matches : other.priority <= rule.priority}
  IN IF matches = {}
     THEN boundary.mode = "allow"
     ELSE \E rule \in selected : rule.effect = "allow"

evaluateBoundary(boundary, u, q) ==
  LET matches == {rule \in boundary.rules : explainRule(rule, u, q)}
      selected == {rule \in matches : \A other \in matches : other.priority <= rule.priority}
  IN IF matches = {}
     THEN boundary.mode = "allow"
     ELSE \A rule \in selected : rule.effect # "deny"

evaluatePolicySnapshot(boundary, u, q, used) ==
  \A b \in {"service"} \cup used : evaluateBoundary(boundary[b], u, q)

\* The explanation helper, from the rows of the database.
simulate(u, q, used) ==
  /\ u \in effectiveUserIds
  /\ \A c \in used : cred[c].status = "usable" /\ selectorApplies(cred[c].sel, u)
  /\ evaluatePolicySnapshot([b \in Boundaries |-> policyBoundarySnapshot(b)], u, q, used)

\* A request to the gateway, from the active snapshot.
evaluateRuntimePolicy(u, q, used) ==
  /\ account[u] = "active" /\ selectorApplies(served.grant, u)
  /\ \A c \in used : served.cred[c].status = "usable" /\ selectorApplies(served.cred[c].sel, u)
  /\ evaluatePolicySnapshot(served.boundary, u, q, used)

canonicalRuntimeSnapshot ==
  [grant |-> grant, cred |-> cred, boundary |-> [b \in Boundaries |-> policyBoundarySnapshot(b)]]

Projectable == Cardinality(ActivePolicies) <= MaxProjected

-----------------------------------------------------------------------------
(***************************************************************************)
(* Invalidation events: about the assignments, a credential or a policy,   *)
(* each naming a user or everybody ("all").                                *)
(***************************************************************************)
Event(table, gen, who) == [table |-> table, gen |-> gen, who |-> who]

Invalidate(affected) ==
  /\ authgen' = authgen + 1
  /\ told' = told \cup {Event("assignment", authgen + 1, w) : w \in affected \cup {"all"}}

InvalidateCredential(affected) ==
  told' = told \cup {Event("credential", 0, w) : w \in affected \cup {"all"}}

InvalidatePolicy(gen) == told' = told \cup {Event("policy", gen, "all")}

Changing == changes < MaxChanges /\ changes' = changes + 1

-----------------------------------------------------------------------------
(***************************************************************************)
(* Groups and assignments.                                                 *)
(***************************************************************************)
groupIsSelected(g) == g \in grant.groups

createGroup(g) ==
  /\ Changing /\ team[g].life = "none"
  /\ team' = [team EXCEPT ![g].life = "active"]
  /\ UNCHANGED <<account, grant, cred, policy, authgen, told, served>>

replaceMembers(g, members) ==
  /\ Changing /\ team[g].life = "active"
  /\ \A u \in members : account[u] = "active"
  /\ team' = [team EXCEPT ![g].members = members]
  /\ IF groupIsSelected(g) /\ members # team[g].members
     THEN Invalidate((members \ team[g].members) \cup (team[g].members \ members))
     ELSE UNCHANGED <<authgen, told>>
  /\ UNCHANGED <<account, grant, cred, policy, served>>

effectiveSelectedGroupUsers(g) == {u \in team[g].members : account[u] = "active"}

archiveGroup(g) ==
  /\ Changing /\ team[g].life = "active"
  /\ team' = [team EXCEPT ![g].life = "archived"]
  /\ grant' = Without(grant, {g}, {})
  /\ Invalidate(IF groupIsSelected(g) THEN effectiveSelectedGroupUsers(g) ELSE {})
  /\ UNCHANGED <<account, cred, policy, served>>

\* The foreign keys: the selectors of every credential and rule lose the rows.
Cascade(gs, us) ==
  /\ grant' = Without(grant, gs, us)
  /\ cred' = [c \in Creds |-> [cred[c] EXCEPT !.sel = Without(@, gs, us)]]
  /\ policy' = [p \in Slots |-> [policy[p] EXCEPT !.rules =
       [i \in RuleSlots |-> [policy[p].rules[i] EXCEPT !.sel = Without(@, gs, us)]]]]

deleteGroup(g) ==
  /\ Changing /\ team[g].life = "archived"
  /\ team' = [team EXCEPT ![g] = [life |-> "none", members |-> {}]]
  /\ Cascade({g}, {})
  /\ Invalidate({})
  /\ UNCHANGED <<account, served>>

SymmetricDifference(a, b) == (a \ b) \cup (b \ a)

replaceAssignments(sel) ==
  /\ Changing /\ validateSelectorTargets(sel)
  /\ grant' = sel
  /\ Invalidate(SymmetricDifference(effectiveUserIds, {u \in Users : Contributes(sel, u)}))
  /\ UNCHANGED <<account, team, cred, policy, served>>

-----------------------------------------------------------------------------
(***************************************************************************)
(* Credentials and users, as far as they carry or fill selectors.          *)
(***************************************************************************)
replaceCredentialAssignments(c, sel) ==
  /\ Changing /\ cred[c].status = "usable" /\ validateSelectorTargets(sel)
  /\ cred' = [cred EXCEPT ![c].sel = sel]
  /\ InvalidateCredential(SymmetricDifference(effectiveCredentialUsers(c),
       {u \in effectiveUserIds : selectorApplies(sel, u)}))
  /\ UNCHANGED <<account, team, grant, policy, authgen, served>>

archiveCredential(c) ==
  /\ Changing /\ cred[c].status = "usable"
  /\ cred' = [cred EXCEPT ![c] = [status |-> "archived", sel |-> Unassigned]]
  /\ InvalidateCredential(effectiveCredentialUsers(c))
  /\ UNCHANGED <<account, team, grant, policy, authgen, served>>

\* deleteArchived of a credential takes its policies along.
deleteCredential(c) ==
  /\ Changing /\ cred[c].status = "archived"
  /\ cred' = [cred EXCEPT ![c].status = "gone"]
  /\ policy' = [p \in Slots |-> IF policy[p].boundary = c THEN NoPolicy ELSE policy[p]]
  /\ InvalidateCredential({})
  /\ UNCHANGED <<account, team, grant, authgen, served>>

suspendUser(u) ==
  /\ Changing /\ account[u] = "active"
  /\ account' = [account EXCEPT ![u] = "suspended"]
  /\ UNCHANGED <<team, grant, cred, policy, authgen, told, served>>

restoreUser(u) ==
  /\ Changing /\ account[u] = "suspended"
  /\ account' = [account EXCEPT ![u] = "active"]
  /\ UNCHANGED <<team, grant, cred, policy, authgen, told, served>>

deleteUser(u) ==
  /\ Changing /\ account[u] = "suspended"
  /\ account' = [account EXCEPT ![u] = "deleted"]
  /\ team' = [g \in Groups |-> [team[g] EXCEPT !.members = @ \ {u}]]
  /\ Cascade({}, {u})
  /\ UNCHANGED <<authgen, told, served>>

-----------------------------------------------------------------------------
(***************************************************************************)
(* Policies.  An identity is the lowest free one.                          *)
(***************************************************************************)
validateBoundary(b) == b \in Creds => cred[b].status = "usable"

Unoccupied(b) == \A p \in ActivePolicies : policy[p].boundary # b

FreeSlots == {p \in Slots : policy[p].life = "none"}
FirstOf(s) == CHOOSE x \in s : \A y \in s : x <= y

\* One active policy per boundary: the unique indexes.
Insertable(b) == validateBoundary(b) /\ Unoccupied(b) /\ FreeSlots # {}

createPolicy(b, m) ==
  /\ Changing /\ Insertable(b)
  /\ policy' = [policy EXCEPT ![FirstOf(FreeSlots)] =
                  [NoPolicy EXCEPT !.life = "active", !.boundary = b, !.mode = m]]
  /\ UNCHANGED <<account, team, grant, cred, authgen, told, served>>

\* bumpPolicyGeneration, or the same written out in updatePolicy and archivePolicy.
Changed(p, row) ==
  /\ policy' = [policy EXCEPT ![p] = [row EXCEPT !.gen = policy[p].gen + 1]]
  /\ InvalidatePolicy(policy[p].gen + 1)
  /\ UNCHANGED <<account, team, grant, cred, authgen, served>>

updatePolicy(p, m) ==
  /\ Changing /\ policy[p].life = "active"
  /\ Changed(p, [policy[p] EXCEPT !.mode = m])

requireRuleCapacity(p) ==
  totalRules < MaxRulesTotal /\ RuleCount(policy[p].rules) < Cardinality(RuleSlots)

createRule(p, rule) ==
  /\ Changing /\ policy[p].life = "active"
  /\ requireRuleCapacity(p) /\ RuleAllowed(rule)
  /\ Changed(p, [policy[p] EXCEPT
       !.rules[FirstOf({i \in RuleSlots : policy[p].rules[i] = NoRule})] = rule])

updateRule(p, i, rule) ==
  /\ Changing /\ policy[p].life = "active" /\ policy[p].rules[i] # NoRule
  /\ RuleAllowed(rule)
  /\ Changed(p, [policy[p] EXCEPT !.rules[i] = rule])

replaceRuleAssignments(p, i, sel) ==
  /\ Changing /\ policy[p].life = "active" /\ policy[p].rules[i] # NoRule
  /\ validateRuleTargets(sel)
  /\ Changed(p, [policy[p] EXCEPT !.rules[i].sel = sel])

deleteRule(p, i) ==
  /\ Changing /\ policy[p].life = "active" /\ policy[p].rules[i] # NoRule
  /\ Changed(p, [policy[p] EXCEPT !.rules[i] = NoRule])

archivePolicy(p) ==
  /\ Changing /\ policy[p].life = "active"
  /\ Changed(p, [policy[p] EXCEPT !.life = "archived",
       !.rules = [i \in RuleSlots |-> [policy[p].rules[i] EXCEPT !.enabled = FALSE]]])

deleteArchived(p) ==
  /\ Changing /\ policy[p].life = "archived"
  /\ policy' = [policy EXCEPT ![p] = NoPolicy]
  /\ UNCHANGED <<account, team, grant, cred, authgen, told, served>>

\* A copy within the service keeps its principals, any other is disabled.
Copied(rules, preserve) ==
  [i \in RuleSlots |-> IF preserve \/ rules[i] = NoRule THEN rules[i]
                       ELSE [rules[i] EXCEPT !.enabled = FALSE, !.sel = Unassigned]]

\* parseCopyDocument and copyProfiles: an enabled rule has principals.
CopyAccepted(rules, preserve) ==
  \A rule \in RulesOf(rules) :
    /\ rule.enabled => rule.sel # Unassigned
    /\ preserve => validateRuleTargets(rule.sel)

\* importPolicy, by clone (preserve) or with a document of another service.
importPolicy(p, b, preserve) ==
  /\ Changing /\ policy[p].life # "none" /\ Insertable(b)
  /\ CopyAccepted(policy[p].rules, preserve)
  /\ totalRules + RuleCount(policy[p].rules) <= MaxRulesTotal
  /\ policy' = [policy EXCEPT ![FirstOf(FreeSlots)] =
                  [life |-> "active", boundary |-> b, mode |-> policy[p].mode, gen |-> 1,
                   rules |-> Copied(policy[p].rules, preserve)]]
  /\ InvalidatePolicy(1)
  /\ UNCHANGED <<account, team, grant, cred, authgen, served>>

\* All copies of one request or none.
bulkCopy(p, bs) ==
  /\ Changing /\ policy[p].life # "none"
  /\ \A b \in bs : validateBoundary(b) /\ Unoccupied(b)
  /\ Cardinality(bs) <= Cardinality(FreeSlots)
  /\ CopyAccepted(policy[p].rules, TRUE)
  /\ totalRules + Cardinality(bs) * RuleCount(policy[p].rules) <= MaxRulesTotal
  /\ \E place \in [bs -> FreeSlots] :
       /\ \A b, c \in bs : b # c => place[b] # place[c]
       /\ policy' = [s \in Slots |->
            IF \E b \in bs : place[b] = s
            THEN [life |-> "active", boundary |-> CHOOSE b \in bs : place[b] = s,
                  mode |-> policy[p].mode, gen |-> 1, rules |-> policy[p].rules]
            ELSE policy[s]]
  /\ InvalidatePolicy(1)
  /\ UNCHANGED <<account, team, grant, cred, authgen, served>>

-----------------------------------------------------------------------------
(***************************************************************************)
(* The runtime.                                                            *)
(***************************************************************************)
\* A variant of Poll: the snapshot is validated as a publication is.
PollValidating ==
  /\ told # {} /\ Projectable
  /\ \A p \in ActivePolicies : \A rule \in RulesOf(policy[p].rules) :
       rule.enabled => rule.sel # Unassigned
  /\ served' = canonicalRuntimeSnapshot
  /\ told' = {}
  /\ UNCHANGED <<account, team, grant, cred, policy, authgen, changes>>

\* The poll of runtimeInvalidation.ts: persist the snapshot, mark dispatched.
Poll ==
  /\ told # {} /\ Projectable
  /\ served' = canonicalRuntimeSnapshot
  /\ told' = {}
  /\ UNCHANGED <<account, team, grant, cred, policy, authgen, changes>>

\* validationView, as far as it looks at policies.
policyConfigurationValid ==
  \A p \in ActivePolicies : \A rule \in RulesOf(policy[p].rules) :
    rule.enabled => /\ rule.sel # Unassigned
                    /\ validateSelectorTargets(rule.sel)

\* A publication of the service projects the rows of this moment.
publish ==
  /\ Changing /\ policyConfigurationValid /\ Projectable
  /\ served' = canonicalRuntimeSnapshot
  /\ UNCHANGED <<account, team, grant, cred, policy, authgen, told>>

-----------------------------------------------------------------------------
\* A published service with one group; the service is assigned to everybody or
\* to the group, and it may have a first policy with any of the rules.
Init ==
  /\ account = [u \in Users |-> "active"]
  /\ \E g \in Groups :
       /\ team = [h \in Groups |-> [life |-> IF h = g THEN "active" ELSE "none",
                                    members |-> IF h = g THEN Users ELSE {}]]
       /\ grant \in {Everyone, Selector(FALSE, {g}, {})}
  /\ cred = [c \in Creds |-> [status |-> "usable", sel |-> Everyone]]
  /\ policy \in {[p \in Slots |-> NoPolicy]} \cup
       {[p \in Slots |-> IF p # 1 THEN NoPolicy ELSE
           [NoPolicy EXCEPT !.life = "active", !.gen = 1, !.rules[1] = rule]] :
         rule \in {profile \in Profiles : RuleAllowed(profile)}}
  /\ authgen = 0
  /\ told = {}
  /\ served = canonicalRuntimeSnapshot
  /\ changes = 0

GroupStep ==
  \E g \in Groups :
    \/ createGroup(g)
    \/ \E members \in SUBSET Users : replaceMembers(g, members)
    \/ archiveGroup(g)
    \/ deleteGroup(g)

SelectorStep ==
  \E sel \in Choices :
    \/ replaceAssignments(sel)
    \/ \E c \in Creds : replaceCredentialAssignments(c, sel)

CredentialStep == \E c \in Creds : archiveCredential(c) \/ deleteCredential(c)

UserStep == \E u \in Users : suspendUser(u) \/ restoreUser(u) \/ deleteUser(u)

PolicyStep ==
  \/ \E b \in Boundaries, m \in {"allow", "deny"} : createPolicy(b, m)
  \/ \E p \in Slots :
       \/ \E m \in {"allow", "deny"} : updatePolicy(p, m)
       \/ archivePolicy(p)
       \/ deleteArchived(p)
       \/ \E b \in Boundaries, preserve \in BOOLEAN : importPolicy(p, b, preserve)
       \/ \E bs \in SUBSET Boundaries \ {{}} : bulkCopy(p, bs)

RuleStep ==
  \E p \in Slots :
    \/ \E rule \in Profiles : createRule(p, rule)
    \/ \E i \in RuleSlots :
         \/ \E rule \in Profiles : updateRule(p, i, rule)
         \/ \E sel \in Choices : replaceRuleAssignments(p, i, sel)
         \/ deleteRule(p, i)

Next ==
  GroupStep \/ SelectorStep \/ CredentialStep \/ UserStep \/ PolicyStep \/ RuleStep
    \/ Poll \/ publish

\* The timer of the invalidation processor fires for ever.
Spec == Init /\ [][Next]_vars /\ WF_vars(Poll)

-----------------------------------------------------------------------------
(***************************************************************************)
(* Properties.                                                             *)
(***************************************************************************)
PolicyRows == [life : {"none", "active", "archived"}, boundary : Boundaries, mode : {"allow", "deny"},
               gen : Nat, rules : [RuleSlots -> Rules \cup {NoRule}]]

TypeOK ==
  /\ account \in [Users -> {"active", "suspended", "deleted"}]
  /\ team \in [Groups -> [life : {"none", "active", "archived"}, members : SUBSET Users]]
  /\ grant \in Selectors
  /\ cred \in [Creds -> [status : {"usable", "archived", "gone"}, sel : Selectors]]
  /\ policy \in [Slots -> PolicyRows]
  /\ authgen \in Nat

\* What the documentation promises of one boundary: an allow rule that applies
\* and that no deny rule of its priority or a greater one meets, or nothing
\* that applies and the mode.
BoundaryAllows(b, u, q) ==
  LET boundary == policyBoundarySnapshot(b)
      applicable == {rule \in boundary.rules : explainRule(rule, u, q)}
      Denied(least) == \E rule \in applicable : rule.effect = "deny" /\ rule.priority >= least
  IN IF applicable = {} THEN boundary.mode = "allow"
     ELSE \E rule \in applicable : rule.effect = "allow" /\ ~Denied(rule.priority)

\* Whatever was archived, copied, cascaded away or polled, a boundary has one
\* active policy, and the evaluator (evaluatePolicySnapshot) grants a request
\* exactly when the user has the service and every credential used and each
\* boundary allows it by the documented order of priorities and ties.
DecisionAsDocumented ==
  /\ TypeOK
  /\ \A p, q \in ActivePolicies : policy[p].boundary = policy[q].boundary => p = q
  /\ \A u \in Users, q \in Sent, used \in SUBSET Creds :
       simulate(u, q, used) <=>
         /\ u \in effectiveUserIds
         /\ \A c \in used : cred[c].status = "usable" /\ u \in effectiveCredentialUsers(c)
         /\ \A b \in {"service"} \cup used : BoundaryAllows(b, u, q)

\* Once the events are dispatched the gateway grants nothing that the rows
\* refuse: every transaction that takes access away writes an event, moves a
\* row that is read live, or makes no difference (canonicalRuntimeSnapshot
\* against the invalidate functions of groups, credentials and policies).
NothingServedBeyondRows ==
  told = {} => \A u \in Users, q \in Sent, used \in SUBSET Creds :
                 evaluateRuntimePolicy(u, q, used) => simulate(u, q, used)

\* A transaction on groups or assignments that gives a user the service or
\* takes it away names the user in an event of the new generation: the users
\* that replaceMembers, archiveGroup and replaceAssignments compute are the
\* ones that are affected.
AffectedUsersNamed ==
  [][\A u \in Users :
       account' = account /\ (u \in effectiveUserIds) # (u \in effectiveUserIds')
         => authgen' > authgen /\ Event("assignment", authgen', u) \in told']_vars

=============================================================================
