--------------------------- MODULE MCRuntimePlane ---------------------------
(***************************************************************************)
(* What management transactions change and the gateway serves, for TLC:    *)
(* references and invalidation events, and groups, assignments and         *)
(* policies.  The two modules look at the same snapshot at different       *)
(* depths and share no variable, so a behaviour is about one of them, its  *)
(* focus, and the other keeps its initial state.                           *)
(***************************************************************************)
EXTENDS MCRuntimeReferences, FiniteSets

CONSTANTS
  u1, u2, g1,                                                  \* of TLC's instance
  Users, Groups, AssignedCredentials, Slots, RuleSlots, MaxRulesTotal, MaxProjected,
    MaxPriority, Profiles, Choices, MaxChanges                 \* of the access control

VARIABLES
  focus,
  account, team, grant, credential, policies, authgen, told, served, changes

Access == INSTANCE AccessControl WITH
  cred <- credential, policy <- policies, Creds <- AssignedCredentials

\* Administrators send selectors and rules that the schema accepts.
ASSUME AccessParameters ==
  /\ Choices \subseteq Access!Selectors /\ Profiles \subseteq Access!Rules
  /\ Slots \subseteq Nat /\ MaxPriority \in Nat

\* What TLC's administrators send.
Select(all, groups, users) == [all |-> all, groups |-> groups, users |-> users]
Rule(effect, priority, on, match, sel) ==
  [effect |-> effect, priority |-> priority, enabled |-> on, match |-> match, sel |-> sel]

EachSelector == {Select(TRUE, {}, {}), Select(FALSE, {g1}, {}), Select(FALSE, {}, {u1})}
SomeRules ==
  {Rule("allow", 1, TRUE, {"read", "write"}, Select(TRUE, {}, {})),
   Rule("deny", 1, TRUE, {"write"}, Select(FALSE, {g1}, {})),
   Rule("allow", 2, TRUE, {"write"}, Select(FALSE, {}, {u1})),
   Rule("allow", 1, FALSE, {"read", "write"}, Select(FALSE, {}, {}))}

accessVars == <<account, team, grant, credential, policies, authgen, told, served, changes>>
planeVars == <<focus, vars, accessVars>>

PlaneInit ==
  /\ focus \in {"references", "access"}
  /\ Init /\ Access!Init
  /\ focus # "references" => \A c \in Credentials : cred[c].status = "deleted"
  /\ focus # "access" => grant = Access!Everyone
  /\ grant = Access!Everyone => \A p \in Slots : policies[p] = Access!NoPolicy

PlaneNext ==
  \/ focus = "references" /\ Next /\ UNCHANGED <<focus, accessVars>>
  \/ focus = "access" /\ Access!Next /\ UNCHANGED <<focus, vars>>

\* The timer polls and a started poll goes on, in the component in focus.
PlaneSpec ==
  /\ PlaneInit /\ [][PlaneNext]_planeVars
  /\ WF_vars(focus = "references" /\ TimerPoll)
  /\ WF_vars(focus = "references" /\ PollStep)
  /\ WF_accessVars(focus = "access" /\ Access!Poll)

-----------------------------------------------------------------------------
(* What is checked of each component.                                      *)

\* Decisions are the documented ones, the gateway takes no wider one, and the
\* users whose access a transaction changes are told (policyManagement.ts,
\* groupAssignments.ts, runtimeSnapshots.ts).
AccessAsDocumented ==
  /\ [](focus = "access" =>
          Access!DecisionAsDocumented /\ Access!NothingServedBeyondRows)
  /\ Access!AffectedUsersNamed

\* There is an event to dispatch, and all are or the service cannot be projected.
Undispatched ==
  CASE focus = "references" -> events # <<>>
    [] focus = "access" -> told # {}
    [] OTHER -> FALSE
Dispatched ==
  CASE focus = "references" -> events = <<>>
    [] focus = "access" -> told = {} \/ ~Access!Projectable
    [] OTHER -> TRUE

\* Every invalidation is dispatched sooner or later: through failing
\* transactions, restarts and batches of one (runtimeInvalidation.ts poll), and
\* whatever rows management leaves behind, unless there are more policies than
\* a snapshot accepts (persistRuntimeSnapshot).
EveryEventDispatched == Undispatched ~> Dispatched
=============================================================================
