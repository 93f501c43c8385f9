------------------------------ MODULE Endpoints ------------------------------
(***************************************************************************)
(* Every operation the handlers offer, as the request it makes: the HTTP   *)
(* verb, how the answer is decoded (via), whether the handler then applies *)
(* its auth block (update_token_from_auth), and where the path lies.       *)
(* Parameters and bodies are left out: nothing the client decides depends  *)
(* on them.                                                                *)
(*                                                                         *)
(* via names the function of async_client.rs that runs the operation and   *)
(* what it needs of the answer:                                            *)
(*   "data"      exec_with_data, exec_patch: the data field                *)
(*   "empty"     exec_empty: only the status                               *)
(*   "list"      exec_list: the keys, none on a 404                        *)
(*   "direct"    exec_direct into a struct; "untyped" into any JSON;       *)
(*               "lease" into a struct whose fields every envelope has     *)
(*   "envelope"  exec_with_auth: the envelope as it is                     *)
(*   "auth"      exec_with_auth: its auth field                            *)
(*   "wrap"      exec_with_auth: its wrap_info field                       *)
(*   "raw"       execute: the body, whatever it is                         *)
(*   "restore"   a request built without execute                           *)
(* area says where the path lies and which of its text is the caller's:    *)
(* "other" outside auth/, with the caller's mounts and names; "auth" below *)
(* auth/, with the caller's mount and names; "login" the same with the     *)
(* handler's own /login in it; "token" below auth/, none of it the         *)
(* caller's; "any" the caller wrote all of it.                             *)
(***************************************************************************)

Run(via, verb, names) == [op : names, verb : {verb}, via : {via}, applies : {FALSE}]
Applied(verb, names) == [op : names, verb : {verb}, via : {"auth"}, applies : {TRUE}]
Data(verb, names)  == Run("data", verb, names)
Empty(verb, names) == Run("empty", verb, names)
List(names)        == Run("list", "LIST", names)

At(area, ops) ==
  {[op |-> o.op, verb |-> o.verb, via |-> o.via, applies |-> o.applies,
    area |-> area, client |-> "async"] : o \in ops}
-----------------------------------------------------------------------------
(* Secret engines.                                                         *)

Kv1Operations == At("other",
  Data("GET", {"read"}) \cup Empty("POST", {"write"}) \cup Empty("DELETE", {"delete"})
  \cup List({"list"}))
Kv1Conveniences == At("other", Data("GET", {"read_data", "read_field", "read_string_data"}))

Kv2Data == At("other",
  Data("GET", {"read_config", "read", "read_data", "read_version"})
  \cup Data("POST", {"write", "write_cas"}) \cup Data("PATCH", {"patch"})
  \cup Empty("POST", {"write_config"}) \cup Empty("DELETE", {"delete"}) \cup List({"list"}))
Kv2Versions == At("other",
  Empty("POST", {"delete_versions", "undelete_versions", "destroy_versions", "write_metadata"})
  \cup Empty("PATCH", {"patch_metadata"}) \cup Empty("DELETE", {"delete_metadata"})
  \cup Data("GET", {"read_metadata", "read_subkeys"}))
Kv2Conveniences == At("other",
  Data("POST", {"write_field"}) \cup Data("GET", {"read_field", "read_string_data"}))

Cubbyhole == At("other",
  Data("GET", {"read"}) \cup Empty("POST", {"write"}) \cup Empty("DELETE", {"delete"})
  \cup List({"list"}))

TransitKeys == At("other",
  Empty("POST", {"create_key", "update_key_config", "rotate_key"})
  \cup Empty("DELETE", {"delete_key"}) \cup List({"list_keys"})
  \cup Data("GET", {"read_key", "export_key"}))
TransitCrypto == At("other",
  Data("POST", {"encrypt", "decrypt", "rewrap", "batch_encrypt", "batch_decrypt", "sign",
                "verify", "hash", "hmac", "random", "generate_data_key"}))
TransitUpkeep == At("other",
  Empty("POST", {"trim_key", "restore_key", "write_cache_config"})
  \cup Data("POST", {"batch_sign", "batch_verify"})
  \cup Data("GET", {"backup_key", "read_cache_config"}))

PkiIssuers == At("other",
  Data("POST", {"generate_root", "generate_intermediate_csr", "set_signed_intermediate"})
  \cup Data("GET", {"read_issuer"}) \cup List({"list_issuers"})
  \cup Empty("DELETE", {"delete_root", "delete_issuer"}))
PkiCertificates == At("other",
  Empty("POST", {"create_role"}) \cup Empty("DELETE", {"delete_role"})
  \cup Data("GET", {"read_role", "read_cert"}) \cup List({"list_roles", "list_certs"})
  \cup Data("POST", {"issue", "sign", "sign_verbatim"}))
PkiUpkeep == At("other",
  Empty("POST", {"set_urls", "rotate_crl", "tidy", "write_acme_config", "rotate_delta_crl"})
  \cup Data("GET", {"read_urls", "tidy_status", "read_acme_config"})
  \cup Data("POST", {"revoke", "revoke_with_key", "update_issuer", "cross_sign_intermediate"})
  \cup Run("raw", "GET", {"read_crl", "read_crl_delta"}))

DatabaseConnections == At("other",
  Empty("POST", {"configure", "reset_connection"}) \cup Empty("DELETE", {"delete_config"})
  \cup Data("GET", {"read_config"}) \cup List({"list_connections"}))
DatabaseRoles == At("other",
  Empty("POST", {"create_role", "create_static_role", "rotate_static_role"})
  \cup Empty("DELETE", {"delete_role", "delete_static_role"})
  \cup Data("GET", {"read_role", "get_credentials", "read_static_role", "get_static_credentials"})
  \cup List({"list_roles", "list_static_roles"}))

Ssh == At("other",
  Empty("POST", {"configure_ca", "create_role"}) \cup Empty("DELETE", {"delete_ca", "delete_role"})
  \cup Data("GET", {"read_public_key", "read_role"}) \cup List({"list_roles"})
  \cup Data("POST", {"sign_key", "verify_otp"}))

Totp == At("other",
  Run("envelope", "POST", {"create_key"}) \cup Data("GET", {"read_key", "generate_code"})
  \cup Empty("DELETE", {"delete_key"}) \cup List({"list_keys"}) \cup Data("POST", {"validate_code"}))

AwsSecrets == At("other",
  Empty("POST", {"configure_root", "rotate_root", "create_role"})
  \cup Empty("DELETE", {"delete_role"}) \cup List({"list_roles"})
  \cup Data("GET", {"read_config_root", "read_role", "get_credentials"})
  \cup Data("POST", {"get_sts_credentials"}))

(* What consul, nomad, azure and terraform have in common *)
Issuer == At("other",
  Empty("POST", {"configure", "create_role"}) \cup Empty("DELETE", {"delete_config", "delete_role"})
  \cup Data("GET", {"read_config", "read_role", "get_credentials"}) \cup List({"list_roles"}))
Consul         == Issuer
Nomad          == Issuer
AzureSecrets   == Issuer
TerraformCloud == Issuer

GcpSecrets == At("other",
  Empty("POST", {"configure", "create_roleset", "rotate_roleset"})
  \cup Empty("DELETE", {"delete_config", "delete_roleset"}) \cup List({"list_rolesets"})
  \cup Data("GET", {"read_config", "read_roleset", "get_service_account_key", "get_oauth_token"}))

Rabbitmq == At("other",
  Empty("POST", {"configure", "configure_lease", "create_role"}) \cup Empty("DELETE", {"delete_role"})
  \cup Data("GET", {"read_role", "get_credentials"}) \cup List({"list_roles"}))

IdentityEntities == At("other",
  Data("POST", {"create_entity", "create_entity_alias"}) \cup Empty("POST", {"update_entity"})
  \cup Data("GET", {"read_entity", "read_entity_by_name", "read_entity_alias"})
  \cup Empty("DELETE", {"delete_entity", "delete_entity_alias"})
  \cup List({"list_entities", "list_entity_aliases"}))
IdentityGroups == At("other",
  Data("POST", {"create_group", "create_group_alias"}) \cup Empty("POST", {"update_group"})
  \cup Data("GET", {"read_group", "read_group_by_name", "read_group_alias"})
  \cup Empty("DELETE", {"delete_group", "delete_group_alias"})
  \cup List({"list_groups", "list_group_aliases"}))
-----------------------------------------------------------------------------
(* The system backend.                                                     *)

SysHealth == At("other", Run("direct", "GET", {"health", "leader"}))
SysSeal   == At("other",
  Run("direct", "GET", {"seal_status"}) \cup Run("direct", "PUT", {"unseal", "init"})
  \cup Empty("PUT", {"seal", "step_down"}))
SysMounts == At("other",
  Data("GET", {"list_mounts", "read_mount_tune", "list_auth_mounts", "read_auth_tune"})
  \cup Empty("POST", {"mount", "tune_mount", "enable_auth"})
  \cup Empty("DELETE", {"unmount", "disable_auth"}))
SysPolicies == At("other",
  List({"list_policies"}) \cup Data("GET", {"read_policy"}) \cup Empty("PUT", {"write_policy"})
  \cup Empty("DELETE", {"delete_policy"}))
SysLeases == At("other",
  Data("POST", {"read_lease"}) \cup Run("lease", "PUT", {"renew_lease"})
  \cup Empty("PUT", {"revoke_lease", "revoke_prefix"}))
SysAudit == At("other",
  Data("GET", {"list_audit_devices"}) \cup Empty("PUT", {"enable_audit"})
  \cup Empty("DELETE", {"disable_audit"}))
SysWrapping == At("other",
  Data("POST", {"unwrap", "wrap_lookup", "capabilities", "capabilities_self"})
  \cup Data("GET", {"key_status"}) \cup Empty("PUT", {"rotate_encryption_key"}))
SysPlugins == At("other",
  List({"list_plugins"}) \cup Data("GET", {"read_plugin"}) \cup Empty("POST", {"register_plugin"})
  \cup Empty("DELETE", {"deregister_plugin"}) \cup Empty("PUT", {"reload_plugin"}))
SysRaft == At("other",
  Data("GET", {"raft_config", "raft_autopilot_state"}) \cup Empty("POST", {"raft_remove_peer"})
  \cup Run("raw", "GET", {"raft_snapshot"}) \cup Run("restore", "POST", {"raft_snapshot_restore"}))
SysNamespaces == At("other",
  List({"list_namespaces"}) \cup Data("POST", {"create_namespace"})
  \cup Empty("DELETE", {"delete_namespace"}))
SysQuotas == At("other",
  List({"list_rate_limit_quotas"}) \cup Data("GET", {"read_rate_limit_quota"})
  \cup Empty("POST", {"write_rate_limit_quota"}) \cup Empty("DELETE", {"delete_rate_limit_quota"}))
SysRekey == At("other",
  Run("direct", "PUT", {"rekey_init", "rekey_update", "generate_root_init", "generate_root_update"})
  \cup Run("direct", "GET", {"rekey_status", "generate_root_status", "in_flight_requests"})
  \cup Empty("DELETE", {"rekey_cancel", "generate_root_cancel"})
  \cup Run("untyped", "GET", {"metrics_json"}) \cup Run("wrap", "POST", {"rewrap"})
  \cup Data("POST", {"remount"})
  \cup Data("GET", {"host_info", "internal_counters_activity", "version_history"}))

SysOperations ==
  SysHealth \cup SysSeal \cup SysMounts \cup SysPolicies \cup SysLeases \cup SysAudit
  \cup SysWrapping \cup SysPlugins \cup SysRaft \cup SysNamespaces \cup SysQuotas \cup SysRekey
-----------------------------------------------------------------------------
(* Auth methods.                                                           *)

Login(name) == At("login", Applied("POST", {name}))

(* What most methods have besides their login: roles and a configuration   *)
Roles  == At("auth",
  Empty("POST", {"create_role"}) \cup Data("GET", {"read_role"})
  \cup Empty("DELETE", {"delete_role"}) \cup List({"list_roles"}))
Config == At("auth", Empty("POST", {"configure"}) \cup Data("GET", {"read_config"}))
Users  == At("auth",
  Data("GET", {"read_user"}) \cup Empty("DELETE", {"delete_user"}) \cup List({"list_users"}))
Groups == At("auth",
  Empty("POST", {"write_group"}) \cup Data("GET", {"read_group"})
  \cup Empty("DELETE", {"delete_group"}) \cup List({"list_groups"}))

TokenAuth == At("token",
  Data("GET", {"lookup_self"}) \cup Data("POST", {"lookup"}) \cup Applied("POST", {"renew_self"})
  \cup Run("auth", "POST", {"create", "create_orphan"}) \cup List({"list_accessors"})
  \cup Empty("POST", {"revoke", "revoke_self", "revoke_accessor"}))
AppRoleAuth == Login("login") \cup Roles \cup At("auth",
  Data("GET", {"read_role_id"}) \cup Data("POST", {"generate_secret_id"})
  \cup Empty("POST", {"destroy_secret_id"}))
AwsAuth   == Login("login") \cup Config \cup Roles
AzureAuth == Login("login") \cup Config \cup Roles
GcpAuth   == Login("login") \cup Config \cup Roles
CertAuth  == Login("login") \cup Roles
OidcAuth  == Login("login_jwt") \cup Config \cup Roles
K8sAuth   == Login("login") \cup At("auth", Empty("POST", {"configure"})) \cup Roles
GithubAuth == Login("login") \cup Config \cup At("auth",
  Empty("POST", {"map_team"}) \cup Data("GET", {"read_team_mapping"}) \cup List({"list_teams"}))
KerberosAuth == Login("login") \cup Config \cup Groups \cup At("auth",
  Empty("POST", {"configure_ldap"}) \cup Data("GET", {"read_ldap_config"}))
LdapAuth   == Login("login") \cup Config \cup Groups \cup Users \cup At("auth", Empty("POST", {"write_user"}))
RadiusAuth == Login("login") \cup Config \cup Users \cup At("auth", Empty("POST", {"write_user"}))
UserpassAuth == Login("login") \cup Users \cup At("auth", Empty("POST", {"create_user", "update_password"}))

AuthOperations ==
  TokenAuth \cup AppRoleAuth \cup AwsAuth \cup AzureAuth \cup GcpAuth \cup CertAuth \cup OidcAuth
  \cup K8sAuth \cup GithubAuth \cup KerberosAuth \cup LdapAuth \cup RadiusAuth \cup UserpassAuth

(* The operation each AuthMethod of the library calls to log in again      *)
LibraryLogins ==
  {o \in AppRoleAuth \cup K8sAuth \cup UserpassAuth \cup LdapAuth \cup GithubAuth \cup OidcAuth
         \cup AwsAuth \cup AzureAuth \cup GcpAuth : o.op \in {"login", "login_jwt"}}
-----------------------------------------------------------------------------
(* Any path: read, read_raw, write, delete, list of the client itself *)
Generic == At("any",
  Data("GET", {"read"}) \cup Run("envelope", "GET", {"read_raw"})
  \cup Run("envelope", "POST", {"write"}) \cup Empty("DELETE", {"delete"}) \cup List({"list"}))

(* The handlers of VaultClient *)
Operations ==
  Kv1Operations \cup Kv1Conveniences \cup Kv2Data \cup Kv2Versions \cup Kv2Conveniences \cup Cubbyhole
  \cup TransitKeys \cup TransitCrypto \cup TransitUpkeep
  \cup PkiIssuers \cup PkiCertificates \cup PkiUpkeep \cup DatabaseConnections \cup DatabaseRoles
  \cup Ssh \cup Totp \cup AwsSecrets \cup Consul \cup Nomad \cup AzureSecrets \cup TerraformCloud
  \cup GcpSecrets \cup Rabbitmq \cup IdentityEntities \cup IdentityGroups
  \cup SysOperations \cup AuthOperations \cup Generic
-----------------------------------------------------------------------------
(* BlockingVaultClient: each of its handlers runs the operations of the    *)
(* async handler it wraps, one by one, in block_on.                        *)

Blocking(ops) == {[o EXCEPT !.client = "blocking"] : o \in ops}

BlockingGeneric   == Blocking(Generic)
BlockingCubbyhole == Blocking(Cubbyhole)
BlockingKv1       == Blocking(Kv1Operations)
BlockingKv2       == Blocking(Kv2Data \cup Kv2Versions \cup Kv2Conveniences)
BlockingTransit   == Blocking(TransitKeys \cup TransitCrypto \cup TransitUpkeep)
BlockingPki       == Blocking(PkiIssuers \cup PkiCertificates \cup PkiUpkeep)
BlockingDatabase  == Blocking(DatabaseConnections \cup DatabaseRoles)
BlockingSsh       == Blocking(Ssh)
BlockingIdentity  == Blocking(IdentityEntities \cup IdentityGroups)
BlockingSeal      == Blocking(SysHealth \cup SysSeal)
BlockingMounts    == Blocking(SysMounts \cup SysPolicies)
BlockingLeases    == Blocking(SysLeases \cup SysAudit \cup SysWrapping)
BlockingPlugins   == Blocking(SysPlugins \cup SysRaft \cup SysNamespaces \cup SysQuotas)
BlockingRekey     == Blocking(SysRekey)
BlockingTokenAuth == Blocking(TokenAuth)
BlockingAppRole   == Blocking(AppRoleAuth)
BlockingK8s       == Blocking(K8sAuth)
BlockingUserpass  == Blocking(UserpassAuth)
BlockingLdap      == Blocking(LdapAuth)
BlockingCert      == Blocking(CertAuth)
BlockingGithub    == Blocking(GithubAuth)
BlockingOidc      == Blocking(OidcAuth)
BlockingAws       == Blocking(AwsSecrets \cup AwsAuth)
BlockingTotp      == Blocking(Totp)
BlockingConsul    == Blocking(Consul)
BlockingNomad     == Blocking(Nomad)
BlockingAzure     == Blocking(AzureSecrets \cup AzureAuth)
BlockingGcp       == Blocking(GcpSecrets \cup GcpAuth)
BlockingRabbitmq  == Blocking(Rabbitmq)
BlockingTerraform == Blocking(TerraformCloud)
BlockingRadius    == Blocking(RadiusAuth)
BlockingKerberos  == Blocking(KerberosAuth)

BlockingAuth ==
  BlockingTokenAuth \cup BlockingAppRole \cup BlockingK8s \cup BlockingUserpass \cup BlockingLdap
  \cup BlockingCert \cup BlockingGithub \cup BlockingOidc \cup BlockingRadius \cup BlockingKerberos

BlockingOperations ==
  BlockingGeneric \cup BlockingCubbyhole \cup BlockingKv1 \cup BlockingKv2 \cup BlockingTransit
  \cup BlockingPki \cup BlockingDatabase \cup BlockingSsh \cup BlockingIdentity
  \cup BlockingSeal \cup BlockingMounts \cup BlockingLeases \cup BlockingPlugins \cup BlockingRekey
  \cup BlockingAuth \cup BlockingAws \cup BlockingTotp \cup BlockingConsul \cup BlockingNomad
  \cup BlockingAzure \cup BlockingGcp \cup BlockingRabbitmq \cup BlockingTerraform

Catalogue == Operations \cup BlockingOperations
=============================================================================
