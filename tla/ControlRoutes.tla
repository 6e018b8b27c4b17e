---------------------------- MODULE ControlRoutes ----------------------------
(***************************************************************************)
(* The routes of the control API and the permission matrix they are held   *)
(* against (src/control/*Routes.ts, permissions.ts, routeRegistry.ts).     *)
(*                                                                         *)
(* A route keeps what the request pipeline decides by: its method, the     *)
(* authentication it accepts, the capability it asks for, its step-up      *)
(* rule, its rate class, whether it takes If-Match and an idempotency key, *)
(* which identifier its path carries (target), and what its handler does   *)
(* with a step-up proof: "ignored" (never passed on), "consumed" (spent in *)
(* the mutation's transaction if there is one) or "required" (the handler  *)
(* refuses to run without one).  Schemas, paths and wire formats are left  *)
(* out.                                                                    *)
(***************************************************************************)
EXTENDS FiniteSets

Roles == {"user", "admin", "superadmin", "service", "all_services", "system"}
ApiRoles == {"service", "all_services", "system"}

\* A route that changes nothing.
Read(id, permission, target) ==
  [id |-> id, method |-> "GET", auth |-> {"browser_session"},
   permission |-> permission, stepUp |-> "none", rate |-> "management",
   ifMatch |-> FALSE, idempotent |-> FALSE, target |-> target,
   proof |-> "ignored", expand |-> TRUE]

\* A route that may change something.
Write(id, method, permission, target, ifMatch, idempotent) ==
  [Read(id, permission, target) EXCEPT
     !.method = method, !.ifMatch = ifMatch, !.idempotent = idempotent]

SteppedUp(route, rule, proof) == [route EXCEPT !.stepUp = rule, !.proof = proof]
Rated(route, class) == [route EXCEPT !.rate = class]
For(route, methods) == [route EXCEPT !.auth = methods]
BrowserOnly(route) == [route EXCEPT !.expand = FALSE]
Public(id, method, class) ==
  [Read(id, "none", "none") EXCEPT !.method = method, !.auth = {}, !.rate = class]
Restricted(id, method) ==
  [Read(id, "authenticated", "none") EXCEPT
     !.method = method, !.auth = {"restricted_session"}, !.rate = "authentication"]

(***************************************************************************)
(* The routes, file by file.                                               *)
(***************************************************************************)
SystemRoutes ==
  { Public("control.health.live", "GET", "none"),
    Public("control.health.ready", "GET", "none"),
    Public("control.setup.status", "GET", "none"),
    Public("control.health", "GET", "none"),
    Public("control.openapi", "GET", "none") }

ServiceAccessRoutes ==
  { SteppedUp(Read("access.service.list", "configure_service", "service"), "always",
      "ignored"),
    Write("access.capabilities.invalidate", "POST", "manage_credentials_policies",
        "service", FALSE, FALSE),
    Write("access.sessions.revoke_all", "POST", "authenticated", "none", FALSE, TRUE) }

OwnAccessRoutes ==
  { Write("access.grants.revoke_all", "POST", "authenticated", "none", FALSE, TRUE),
    Read("access.security_sessions.list", "authenticated", "none"),
    Read("access.sessions.list", "authenticated", "none") }

SessionRevocationRoutes ==
  { SteppedUp(Write("access.security_sessions.revoke", "DELETE", "authenticated",
      "other", FALSE, FALSE), "none", "required"),
    Write("access.sessions.revoke", "DELETE", "authenticated", "other", FALSE, FALSE),
    SteppedUp(Write("access.security_sessions.revoke_bulk", "POST", "authenticated",
        "none", FALSE, TRUE), "always", "required") }

GrantAccessRoutes ==
  { Read("access.security_grants.list", "authenticated", "none"),
    Read("access.grants.list", "authenticated", "none"),
    SteppedUp(Write("access.security_grants.revoke_one", "DELETE", "authenticated",
        "other", FALSE, FALSE), "always", "required"),
    Write("access.grants.revoke", "DELETE", "authenticated", "other", FALSE, FALSE) }

GrantBulkRoutes ==
  { SteppedUp(Write("access.security_grants.revoke", "POST", "authenticated", "none",
      FALSE, TRUE), "always", "required") }

ApiKeyRoutes ==
  { SteppedUp(Read("api_keys.list", "manage_api_keys", "none"), "five_minutes",
      "ignored"),
    SteppedUp(Write("api_keys.create", "POST", "manage_api_keys", "none", FALSE,
        FALSE), "five_minutes", "ignored"),
    SteppedUp(Read("api_keys.detail", "manage_api_keys", "other"), "five_minutes",
        "ignored") }

ApiKeyDetailRoutes ==
  { SteppedUp(Write("api_keys.update", "PATCH", "manage_api_keys", "other", TRUE,
      FALSE), "five_minutes", "ignored"),
    SteppedUp(Read("api_keys.activity", "manage_api_keys", "other"), "five_minutes",
        "ignored") }

ApiKeyMutationRoutes ==
  { SteppedUp(Write("api_keys.revoke", "POST", "manage_api_keys", "other", TRUE,
      FALSE), "five_minutes", "ignored"),
    SteppedUp(Write("api_keys.rotate", "POST", "manage_api_keys", "other", TRUE,
        FALSE), "five_minutes", "ignored") }

AuditRetentionRoutes ==
  { Rated(Read("audits.self_security", "authenticated", "none"), "search"),
    Read("audits.retention.get", "view_administrative_audit", "none"),
    SteppedUp(Write("audits.retention.update", "PATCH", "manage_audit_retention",
        "none", TRUE, FALSE), "five_minutes", "consumed"),
    SteppedUp(Write("audits.retention.run", "POST", "manage_audit_retention", "none",
        FALSE, FALSE), "always", "required") }

AuditSearchRoutes ==
  { Read("audits.maintenance.get", "view_administrative_audit", "none"),
    Rated(Read("audits.administrative", "view_administrative_audit", "none"), "search"),
    Rated(Read("audits.runtime", "view_runtime_audit", "none"), "search"),
    Rated(Write("audits.administrative.export", "POST", "export_audit", "none", FALSE,
        FALSE), "search"),
    Rated(Write("audits.runtime.export", "POST", "export_audit", "none", FALSE,
        FALSE), "search") }

BackupRoutes ==
  { BrowserOnly(SteppedUp(Write("backups.create_interactive", "POST",
      "create_portable_backup", "none", FALSE, FALSE), "always", "required")),
    For(Write("backups.create_programmatic", "POST", "create_portable_backup", "none",
        FALSE, FALSE), {"api_key"}) }

CredentialRoutes ==
  { Read("credentials.list", "manage_credentials_policies", "service"),
    SteppedUp(Write("credentials.self_api_key.approve", "PUT",
        "self_api_key_approval", "service", TRUE, TRUE), "always", "required"),
    Write("credentials.create", "POST", "manage_credentials_policies", "service",
        FALSE, TRUE),
    Read("credentials.detail", "manage_credentials_policies", "service") }

CredentialAssignmentRoutes ==
  { Write("credentials.update", "PATCH", "manage_credentials_policies", "service",
      TRUE, FALSE),
    Read("credentials.assignments", "manage_credentials_policies", "service"),
    Write("credentials.assignments.replace", "PUT", "manage_credentials_policies",
        "service", TRUE, TRUE),
    Write("credentials.disable", "POST", "manage_credentials_policies", "service",
        TRUE, TRUE) }

CredentialLifecycleRoutes ==
  { Write("credentials.enable", "POST", "manage_credentials_policies", "service",
      TRUE, FALSE),
    Write("credentials.archive", "POST", "manage_credentials_policies", "service",
        TRUE, TRUE),
    SteppedUp(Write("credentials.delete", "DELETE", "manage_credentials_policies",
        "service", TRUE, TRUE), "always", "ignored") }

CredentialCopyRoutes ==
  { Write("credentials.clone", "POST", "manage_credentials_policies", "service",
      FALSE, TRUE),
    Read("credentials.copy", "manage_credentials_policies", "service"),
    Write("credentials.import", "POST", "manage_credentials_policies", "service",
        FALSE, TRUE),
    Write("credentials.value.replace", "PUT", "manage_credentials_policies",
        "service", TRUE, TRUE) }

CredentialValueDeleteRoutes ==
  { Write("credentials.value.delete", "DELETE", "manage_credentials_policies",
      "service", TRUE, TRUE) }

DashboardRoutes ==
  { Rated(Read("dashboard.activity.get", "view_activity_dashboard", "none"), "search"),
    Rated(Read("dashboard.status.get", "view_status_dashboard", "none"), "search"),
    Rated(Read("dashboard.security.get", "view_security_dashboard", "none"), "search"),
    Rated(Read("dashboard.remediations.get", "view_security_dashboard", "none"),
        "search") }

DashboardMutationRoutes ==
  { SteppedUp(Write("dashboard.remediations.update", "PATCH",
      "manage_dashboard_remediations", "other", TRUE, FALSE), "always", "consumed"),
    SteppedUp(Write("dashboard.activity.rebuild", "POST",
        "rebuild_activity_dashboard", "none", FALSE, FALSE), "always", "required") }

GroupRoutes ==
  { Read("groups.list", "manage_service_groups", "service"),
    Write("groups.create", "POST", "manage_service_groups", "service", FALSE, TRUE),
    Read("groups.detail", "manage_service_groups", "service"),
    Write("groups.update", "PATCH", "manage_service_groups", "service", TRUE, FALSE) }

GroupMemberRoutes ==
  { Read("groups.members", "manage_service_membership", "service"),
    Write("groups.members.replace", "PUT", "manage_service_membership", "service",
        TRUE, TRUE),
    Write("groups.archive", "POST", "manage_service_groups", "service", TRUE, TRUE) }

ServiceAssignmentRoutes ==
  { Write("groups.delete", "DELETE", "manage_service_groups", "service", TRUE, TRUE),
    Read("services.assignments", "manage_service_membership", "service"),
    Write("services.assignments.replace", "PUT", "manage_service_membership",
        "service", TRUE, TRUE) }

AssignmentAccessRoutes ==
  { Read("services.assignment_access", "manage_service_membership", "service"),
    Read("users.me.services", "view_service_configuration", "me") }

LoginRoutes ==
  { Public("identity.login", "POST", "authentication") }

SessionRoutes ==
  { Rated(Write("identity.step_up", "POST", "authenticated", "none", FALSE, FALSE),
      "authentication"),
    Rated(Read("identity.current_session", "authenticated", "none"), "authentication") }

LogoutRoutes ==
  { Rated(Write("identity.logout", "POST", "authenticated", "none", FALSE, FALSE),
      "authentication"),
    Public("identity.oidc_mcp_begin", "GET", "authentication") }

OidcBeginRoutes ==
  { Public("identity.oidc_providers", "GET", "authentication"),
    Public("identity.oidc_begin", "POST", "authentication") }

OidcCallbackRoutes ==
  { Public("identity.oidc_callback", "GET", "authentication") }

OidcLinkReadRoutes ==
  { Restricted("identity.oidc_restricted_options", "GET"),
    Restricted("identity.oidc_restricted_link_begin", "POST"),
    Read("users.oidc_links", "manage_admin_accounts", "user") }

OidcLinkRoutes ==
  { SteppedUp(Write("users.oidc_link_begin", "POST", "manage_admin_accounts", "user",
      TRUE, FALSE), "five_minutes", "consumed"),
    SteppedUp(Write("users.oidc_unlink", "DELETE", "manage_admin_accounts", "user",
        TRUE, FALSE), "five_minutes", "consumed") }

EnrollmentLoginRoutes ==
  { Public("identity.enrollment_login", "POST", "authentication"),
    Public("identity.totp_recovery_login", "POST", "authentication"),
    Restricted("identity.enrollment_begin", "POST") }

EnrollmentRoutes ==
  { Restricted("identity.enrollment_confirm", "POST"),
    Restricted("identity.password_change", "POST"),
    Restricted("identity.totp_enrollment_begin", "POST") }

SelfServiceRoutes ==
  { Restricted("identity.totp_enrollment_confirm", "POST"),
    Rated(Write("identity.self_password_change", "POST", "authenticated", "none",
        FALSE, FALSE), "authentication"),
    Rated(Write("identity.self_totp_begin", "POST", "authenticated", "none", FALSE,
        FALSE), "authentication") }

SelfTotpConfirmRoutes ==
  { Restricted("identity.self_totp_confirm", "POST") }

PolicyRoutes ==
  { Write("policies.simulate", "POST", "manage_credentials_policies", "service",
      FALSE, FALSE),
    Read("policies.list", "manage_credentials_policies", "service"),
    Write("policies.create", "POST", "manage_credentials_policies", "service", FALSE,
        TRUE),
    Read("policies.detail", "manage_credentials_policies", "service"),
    Write("policies.update", "PATCH", "manage_credentials_policies", "service", TRUE,
        FALSE) }

PolicyMutationRoutes ==
  { Write("policies.archive", "POST", "manage_credentials_policies", "service", TRUE,
      FALSE),
    Write("policies.delete", "DELETE", "manage_credentials_policies", "service", TRUE,
        FALSE),
    Write("policies.rules.create", "POST", "manage_credentials_policies", "service",
        FALSE, TRUE),
    Write("policies.rules.update", "PATCH", "manage_credentials_policies", "service",
        TRUE, FALSE) }

PolicyRuleRoutes ==
  { Read("policies.rules.assignments", "manage_credentials_policies", "service"),
    Write("policies.rules.assignments.replace", "PUT", "manage_credentials_policies",
        "service", TRUE, FALSE),
    Write("policies.rules.delete", "DELETE", "manage_credentials_policies", "service",
        TRUE, FALSE),
    Read("policies.copy", "manage_credentials_policies", "service") }

PolicyCopyRoutes ==
  { Write("policies.bulk-copy", "POST", "manage_credentials_policies", "service",
      FALSE, TRUE),
    Write("policies.clone", "POST", "manage_credentials_policies", "service", FALSE,
        TRUE),
    Write("policies.import", "POST", "manage_credentials_policies", "service", FALSE,
        TRUE) }

RecoveryRoutes ==
  { BrowserOnly(Rated(Read("recovery.remediations.get", "manage_global_settings",
      "none"), "search")) }

RestoreStageRoutes ==
  { BrowserOnly(SteppedUp(Write("restores.create_stage", "POST", "restore", "none",
      FALSE, FALSE), "five_minutes", "ignored")),
    BrowserOnly(SteppedUp(Read("restores.read_stage", "restore", "other"),
        "five_minutes", "ignored")),
    BrowserOnly(SteppedUp(Write("restores.preview", "POST", "restore", "other", FALSE,
        FALSE), "five_minutes", "ignored")) }

RestoreCommitRoutes ==
  { BrowserOnly(SteppedUp(Write("restores.commit", "POST", "restore", "other", FALSE,
      FALSE), "always", "required")) }

SecuritySettingsRoutes ==
  { For(Read("security.settings.get", "manage_global_settings", "none"),
      {"browser_session", "api_key"}),
    For(SteppedUp(Write("security.settings.update", "PATCH", "manage_global_settings",
        "none", TRUE, FALSE), "five_minutes", "consumed"), {"browser_session",
        "api_key"}),
    BrowserOnly(Read("security.inactivity_job.get", "manage_global_settings", "none")) }

SecurityJobRoutes ==
  { BrowserOnly(SteppedUp(Write("security.inactivity_job.run", "POST",
      "manage_global_settings", "none", FALSE, FALSE), "five_minutes", "consumed")),
    Rated(Read("security.events.list", "manage_global_settings", "none"), "search") }

GlobalEventRoutes ==
  { SteppedUp(Write("security.events.password_change", "POST",
      "global_authenticator_event", "none", TRUE, TRUE), "always", "required"),
    SteppedUp(Write("security.events.totp_reset", "POST",
        "global_authenticator_event", "none", TRUE, TRUE), "always", "required") }

ServiceRoutes ==
  { Read("services.list", "view_service_configuration", "services"),
    Read("services.detail", "view_service_configuration", "service"),
    Write("services.profile_update", "PATCH", "configure_service", "service", TRUE,
        FALSE),
    Write("services.destination_create", "POST", "configure_service", "service", TRUE,
        FALSE) }

ServicePublishRoutes ==
  { Write("services.destination_delete", "DELETE", "configure_service", "service",
      TRUE, FALSE),
    Write("services.destination_update", "PATCH", "configure_service", "service",
        TRUE, FALSE),
    Write("services.validate", "POST", "configure_service", "service", FALSE, FALSE),
    Write("services.publish", "POST", "configure_service", "service", TRUE, FALSE) }

ServiceRevisionRoutes ==
  { Read("services.revisions", "view_service_configuration", "service"),
    Read("services.copy", "view_service_configuration", "service"),
    Write("services.import", "POST", "configure_service", "service", TRUE, FALSE) }

ServiceLifecycleRoutes ==
  { Write("services.clone", "POST", "create_service", "service", FALSE, TRUE),
    Write("services.rollback", "POST", "configure_service", "service", TRUE, TRUE),
    Write("services.archive", "POST", "archive_service", "service", TRUE, TRUE) }

ServiceCreateDeleteRoutes ==
  { SteppedUp(Write("services.delete", "DELETE", "permanently_delete_service",
      "service", TRUE, TRUE), "always", "required"),
    Write("services.create", "POST", "create_service", "services", FALSE, TRUE),
    Read("services.admins", "view_service_configuration", "service") }

ServiceAdminRoutes ==
  { Write("services.admin_remove", "DELETE", "assign_service_admin", "service", TRUE,
      FALSE),
    Write("services.admin_assign", "PUT", "assign_service_admin", "service", TRUE,
        FALSE) }

ProfileRoutes ==
  { Read("identity.self_profile", "authenticated", "none"),
    Write("identity.self_profile_update", "PATCH", "authenticated", "none", TRUE,
        FALSE),
    Read("users.list", "view_ordinary_users", "none"),
    Read("users.detail", "view_ordinary_users", "user") }

UserInviteRoutes ==
  { Write("users.profile_update", "PATCH", "edit_ordinary_user_profile", "user", TRUE,
      FALSE),
    Write("users.invite", "POST", "invite_ordinary_user", "none", FALSE, TRUE) }

UserStatusRoutes ==
  { SteppedUp(Write("users.totp_reset", "POST", "reset_ordinary_user_totp", "user",
      TRUE, TRUE), "five_minutes", "consumed"),
    SteppedUp(Write("users.suspend", "POST", "suspend_reactivate_user", "user", TRUE,
        FALSE), "five_minutes", "consumed"),
    SteppedUp(Write("users.deactivate", "POST", "deactivate_user", "user", TRUE,
        FALSE), "five_minutes", "consumed") }

UserRoleDeleteRoutes ==
  { SteppedUp(Write("users.role_change", "PATCH", "change_account_role", "user", TRUE,
      FALSE), "five_minutes", "consumed"),
    SteppedUp(Write("users.delete", "DELETE", "permanently_delete_user", "user", TRUE,
        FALSE), "five_minutes", "consumed") }

OneTimeUserRoutes ==
  { SteppedUp(Write("users.password_reset", "POST", "reset_ordinary_user_password",
      "user", TRUE, TRUE), "five_minutes", "consumed"),
    SteppedUp(Write("users.reactivate", "POST", "suspend_reactivate_user", "user",
        TRUE, TRUE), "five_minutes", "consumed"),
    SteppedUp(Write("users.enrollment_restore", "POST", "deactivate_user", "user",
        TRUE, TRUE), "five_minutes", "consumed") }

Registered ==
  UNION { SystemRoutes, ServiceAccessRoutes, OwnAccessRoutes,
          SessionRevocationRoutes, GrantAccessRoutes, GrantBulkRoutes,
          ApiKeyRoutes, ApiKeyDetailRoutes, ApiKeyMutationRoutes,
          AuditRetentionRoutes, AuditSearchRoutes, BackupRoutes,
          CredentialRoutes, CredentialAssignmentRoutes, CredentialLifecycleRoutes,
          CredentialCopyRoutes, CredentialValueDeleteRoutes, DashboardRoutes,
          DashboardMutationRoutes, GroupRoutes, GroupMemberRoutes,
          ServiceAssignmentRoutes, AssignmentAccessRoutes, LoginRoutes,
          SessionRoutes, LogoutRoutes, OidcBeginRoutes,
          OidcCallbackRoutes, OidcLinkReadRoutes, OidcLinkRoutes,
          EnrollmentLoginRoutes, EnrollmentRoutes, SelfServiceRoutes,
          SelfTotpConfirmRoutes, PolicyRoutes, PolicyMutationRoutes,
          PolicyRuleRoutes, PolicyCopyRoutes, RecoveryRoutes,
          RestoreStageRoutes, RestoreCommitRoutes, SecuritySettingsRoutes,
          SecurityJobRoutes, GlobalEventRoutes, ServiceRoutes,
          ServicePublishRoutes, ServiceRevisionRoutes, ServiceLifecycleRoutes,
          ServiceCreateDeleteRoutes, ServiceAdminRoutes, ProfileRoutes,
          UserInviteRoutes, UserStatusRoutes, UserRoleDeleteRoutes,
          OneTimeUserRoutes }

(***************************************************************************)
(* The permission matrix: what each role may do with each capability.      *)
(***************************************************************************)
Row(user, admin, superadmin, service, allServices, system) ==
  [user |-> user, admin |-> admin, superadmin |-> superadmin,
   service |-> service, all_services |-> allServices, system |-> system]

PermissionMatrix ==
  [use_mcp |-> Row("eligible", "deny", "deny", "deny", "deny", "deny"),
   manage_own_security |-> Row("self", "self", "self", "no_account", "no_account",
       "no_account"),
   view_own_grants |-> Row("self", "self", "self", "no_account", "no_account",
       "no_account"),
   view_service_configuration |-> Row("service_names_only", "assigned_services",
       "all_services", "scoped_service", "all_services", "deny"),
   configure_service |-> Row("deny", "assigned_services", "all_services",
       "scoped_service", "all_services", "deny"),
   manage_credentials_policies |-> Row("deny", "assigned_services", "all_services",
       "scoped_service", "all_services", "deny"),
   create_service |-> Row("deny", "deny", "allow", "deny", "allow", "deny"),
   archive_service |-> Row("deny", "deny", "allow", "deny", "allow", "deny"),
   permanently_delete_service |-> Row("deny", "deny", "step_up", "deny", "deny",
       "deny"),
   assign_service_admin |-> Row("deny", "deny", "allow", "deny", "deny", "deny"),
   manage_service_groups |-> Row("deny", "assigned_services", "all_services",
       "scoped_service", "all_services", "deny"),
   manage_service_membership |-> Row("deny", "assigned_services", "all_services",
       "scoped_service", "all_services", "deny"),
   invite_ordinary_user |-> Row("deny", "assigned_services", "all_services",
       "scoped_service", "allow", "ordinary_users_without_assignment"),
   view_ordinary_users |-> Row("self", "related_users", "all_ordinary_users",
       "related_users", "all_ordinary_users", "all_ordinary_users"),
   edit_ordinary_user_profile |-> Row("self_permitted", "related_users_not_self",
       "all_ordinary_users", "deny", "deny", "all_ordinary_users"),
   reset_ordinary_user_password |-> Row("deny", "related_users_step_up",
       "all_ordinary_users_step_up", "related_users", "all_ordinary_users",
       "all_ordinary_users"),
   reset_ordinary_user_totp |-> Row("deny", "related_users_step_up",
       "all_ordinary_users_step_up", "related_users", "all_ordinary_users",
       "all_ordinary_users"),
   suspend_reactivate_user |-> Row("deny", "related_users_step_up",
       "all_ordinary_users_step_up", "deny", "deny", "all_ordinary_users"),
   deactivate_user |-> Row("deny", "related_users_step_up",
       "all_ordinary_users_step_up", "deny", "deny", "all_ordinary_users"),
   permanently_delete_user |-> Row("deny", "deny", "all_ordinary_users_step_up",
       "deny", "deny", "all_ordinary_users"),
   manage_admin_accounts |-> Row("deny", "deny", "allow", "deny", "deny", "allow"),
   change_account_role |-> Row("deny", "deny", "step_up", "deny", "deny", "allow"),
   affect_superadmin |-> Row("deny", "deny", "last_superadmin_rules", "deny", "deny",
       "deny"),
   manage_global_settings |-> Row("deny", "deny", "allow", "deny", "deny",
       "permitted_settings"),
   global_authenticator_event |-> Row("deny", "deny", "step_up", "deny", "deny",
       "deny"),
   manage_api_keys |-> Row("deny", "assigned_services_step_up",
       "all_services_step_up", "deny", "deny", "deny"),
   create_portable_backup |-> Row("deny", "deny", "step_up", "deny", "deny", "allow"),
   backup_with_credentials |-> Row("deny", "deny", "step_up", "deny", "deny", "deny"),
   backup_without_credentials |-> Row("deny", "deny", "allow", "deny", "deny", "allow"),
   restore |-> Row("deny", "deny", "step_up", "deny", "deny", "deny"),
   self_api_key_approval |-> Row("deny", "deny", "step_up", "deny", "deny", "deny"),
   vault_key_operation |-> Row("deny", "deny", "step_up", "deny", "deny", "deny"),
   view_administrative_audit |-> Row("deny", "allow", "allow", "deny", "deny", "deny"),
   view_runtime_audit |-> Row("deny", "allow", "allow", "deny", "deny", "deny"),
   export_audit |-> Row("deny", "allow", "allow", "deny", "deny", "deny"),
   manage_audit_retention |-> Row("deny", "deny", "step_up", "deny", "deny", "deny"),
   view_activity_dashboard |-> Row("deny", "assigned_services", "all_services",
       "deny", "deny", "deny"),
   view_status_dashboard |-> Row("deny", "assigned_services", "all_services", "deny",
       "deny", "deny"),
   view_security_dashboard |-> Row("deny", "assigned_services", "all_services",
       "deny", "deny", "deny"),
   manage_dashboard_remediations |-> Row("deny", "assigned_services_step_up",
       "all_services_step_up", "deny", "deny", "deny"),
   rebuild_activity_dashboard |-> Row("deny", "deny", "step_up", "deny", "deny",
       "deny")]

permissionOutcome(role, capability) == PermissionMatrix[capability][role]

permissionNeedsScope(outcome) ==
  outcome \notin {"allow", "deny", "step_up", "no_account"}

permissionNeedsHumanStepUp(outcome) ==
  outcome \in {"step_up", "assigned_services_step_up", "all_services_step_up",
               "related_users_step_up", "all_ordinary_users_step_up"}

\* Some API-key role may use the capability.
controlCapabilityAllowsApiKey(capability) ==
  \E role \in ApiRoles :
    permissionOutcome(role, capability) \notin {"deny", "no_account"}

IsPublic(route) == route.auth = {}

\* A registered browser route also accepts API keys where the matrix lets one.
withStaticApiKeyAuthentication(route) ==
  IF /\ route.expand
     /\ "browser_session" \in route.auth
     /\ route.permission # "authenticated"
     /\ controlCapabilityAllowsApiKey(route.permission)
    THEN [route EXCEPT !.auth = @ \cup {"api_key"}]
    ELSE route

Routes == {withStaticApiKeyAuthentication(route) : route \in Registered}

RouteNamed(id) == CHOOSE route \in Routes : route.id = id

\* What the registry refuses to start without.
validateDefinition(route) ==
  /\ IsPublic(route) =>
       route.permission = "none" /\ route.stepUp = "none"
  /\ ~IsPublic(route) =>
       route.permission \in DOMAIN PermissionMatrix \cup {"authenticated"}
  /\ route.method = "GET" => ~route.ifMatch /\ ~route.idempotent

RegistryAccepts ==
  /\ \A route \in Registered : validateDefinition(route)
  /\ \A r1, r2 \in Registered : r1.id = r2.id => r1 = r2

RestoreMaintenanceExempt ==
  {"restores.read_stage", "restores.preview", "restores.commit"}
=============================================================================
