------------------------------- MODULE Config -------------------------------
(***************************************************************************)
(* config.py, policy.py and db/config.py: what `validate_config` accepts,  *)
(* what `load_config`, `load_access_policy` and `load_database_targets`    *)
(* make of the same file, and whom and what the access policy refuses.     *)
(*                                                                         *)
(* A file is a set of cells <<section, key>> with values.  A value stands  *)
(* for all that is read alike: "ok" is the literal that a key with a fixed *)
(* choice expects.  The keys that are known by name only are represented   *)
(* by one of their section; "scope", "compliance target" and "database"    *)
(* are a section scope "app", compliance "x" and database "x".  In YAML a  *)
(* section that is not a mapping has the cell <<section, "">>.             *)
(***************************************************************************)
EXTENDS Integers, FiniteSets

Values == {"on", "off", "1", "0", "9", "-1", "ok", "text", ""}
IsBool(v) == v \in {"on", "off", "1", "0"}
True(v) == v \in {"on", "1"}
IsInt(v) == v \in {"1", "0", "9", "-1"}
Number(v) == CASE v = "1" -> 1 [] v = "9" -> 9 [] v = "-1" -> -1 [] OTHER -> 0

Providers == {"access.ldap", "access.sudo", "access.service_accounts", "access.external"}

\* The boolean keys: _BOOLEAN_KEYS, _SCOPE_BOOLEAN_KEYS and, in the sections
\* compliance "x", enabled.
Booleans ==
  ({"local81"} \X {"require_plan_for_deploy", "fail_fast"})
    \union ({"defaults"} \X {"backup", "remote_mkdir", "dry_run_default"})
    \union ({"access"} \X {"deny_root", "allow_remote_cmd"})
    \union ({"access.providers"} \X {"fail_closed"})
    \union (Providers \X {"enabled", "fail_closed"})
    \union {<<"access.ldap", "require_tls">>, <<"access.sudo", "require_sudo_user">>,
            <<"access.sudo", "preserve_original_user">>,
            <<"access.service_accounts", "require_interactive_user">>}
    \union ({"compliance"} \X {"enabled", "include_passed", "strict_unknown", "include_slow"})
    \union {<<"compliance.hardening", "include_advisory">>, <<"compliance target", "enabled">>}
    \union {<<"notifications", "notify_on_success">>, <<"notification.telegram", "enabled">>,
            <<"notification.email", "enabled">>}
    \union ({"scope"} \X {"enabled", "backup"})

\* The integer keys, by their minimum.
AtLeastOne == {<<"local81", "max_parallel">>, <<"routing", "env_from_server_name_char_at">>,
               <<"ssh", "port">>, <<"ssh", "connect_timeout">>, <<"access.external", "timeout_seconds">>}
AtLeastZero == {<<"access.ldap", "cache_ttl_seconds">>}
Minimum(x) == IF x \in AtLeastOne THEN 1 ELSE 0

\* Keys with a choice of values; the last may not even be empty.
OneOf == {<<"local81", "version">>, <<"local81", "default_scope">>, <<"compliance", "fail_on">>,
         <<"ssh", "strict_host_key_checking">>, <<"compliance", "scope">>, <<"scope", "discovery">>}

\* "project" stands for the directories, lock_file and shell as well.
NonEmpty == {<<"local81", "project">>, <<"local81", "default_scope">>, <<"scope", "source_dir">>,
             <<"scope", "target_dir">>, <<"scope", "servers">>, <<"scope", "discovery">>}

\* _LOCAL81_, _TOOLS_, _DEFAULTS_, _ROUTING_ and _SCOPE_REQUIRED_KEYS.
Required ==
  ({"local81"} \X {"version", "project", "default_scope", "require_plan_for_deploy", "fail_fast", "max_parallel"})
    \union {<<"tools", "ssh">>}
    \union ({"defaults"} \X {"rsync_opts", "backup", "remote_mkdir", "dry_run_default"})
    \union ({"routing"} \X {"env_from_filename_prefix", "env_from_server_name_char_at"})
RequiredOfScope == {"scope"} \X {"enabled", "source_dir", "target_dir", "servers", "discovery"}

\* _INI_ALLOWED_KEYS, _SCOPE_ALLOWED_KEYS, _COMPLIANCE_TARGET_ALLOWED_KEYS and
\* ALLOWED_DATABASE_KEYS.
Allowed ==
  Booleans \union AtLeastOne \union AtLeastZero \union OneOf \union Required \union RequiredOfScope
    \union {<<"tools", "jq">>, <<"ssh", "user">>, <<"scope", "rsync_opts">>, <<"access.providers", "enabled">>,
            <<"access.ldap", "uri">>, <<"access.service_accounts", "allowed_accounts">>,
            <<"access.external", "command">>, <<"compliance", "profile">>, <<"compliance target", "profile">>,
            <<"notification.telegram", "bot_token">>, <<"notification.email", "to">>}
    \union ({"access"} \X {"allowed_users", "denied_users", "allowed_groups"})
    \union ({"database"} \X {"engine", "host", "password_ref"})

-----------------------------------------------------------------------------
\* A configuration file that someone wrote by hand.
HandWritten(c) ==
  c \in [format : {"none", "ini", "yaml"}, parses : BOOLEAN, by : {"hand"}, cell : [DOMAIN c.cell -> Values]]

Present(c) == DOMAIN c.cell
Has(c, section) == \E x \in Present(c) : x[1] = section
Cell(c, x, default) == IF x \in Present(c) THEN c.cell[x] ELSE default

\* Fault: the booleans of the scope sections are forgotten.
BadBooleansTop(c) == {x \in Booleans \intersect Present(c) : x[1] # "scope" /\ ~IsBool(c.cell[x])}
BadBooleans(c) == {x \in Booleans \intersect Present(c) : ~IsBool(c.cell[x])}
BadIntegers(c) ==
  {x \in (AtLeastOne \union AtLeastZero) \intersect Present(c) :
     ~IsInt(c.cell[x]) \/ Number(c.cell[x]) < Minimum(x)}
BadChoices(c) == {x \in OneOf \intersect Present(c) : c.cell[x] \notin {"ok", ""}}
Blank(c) == {x \in NonEmpty \intersect Present(c) : c.cell[x] = ""}
Missing(c) ==
  (Required \union (IF Has(c, "scope") THEN RequiredOfScope ELSE {})
            \union (IF Has(c, "database") THEN {<<"database", "engine">>} ELSE {})) \ Present(c)

\* _validate_ini_config: the cells with a FAIL.  Of a database section the
\* names are looked at, not the values; default_scope must match a scope if
\* there are any.
IniFaults(c) ==
  (Present(c) \ Allowed) \union Missing(c) \union Blank(c) \union BadBooleans(c) \union BadIntegers(c)
    \union {x \in BadChoices(c) : x = <<"local81", "default_scope">> => Has(c, "scope")}

\* A managed reference that does not parse, or an engine that is not supported.
BadDatabase(c) == {x \in {<<"database", "engine">>, <<"database", "password_ref">>} \intersect Present(c) :
                     c.cell[x] # "ok"}
SecretKeys == {<<"database", "password">>}

TopLevel == {"local81", "tools", "ssh", "defaults", "routing", "access", "notifications", "scopes",
             "scope", "database", "compliance"}

\* validate_database_yaml_targets.
YamlDatabase(c) ==
  {x \in Present(c) : x[1] = "database" /\ x \notin Allowed}
    \union BadDatabase(c)
    \union (IF Has(c, "database") THEN {<<"database", "engine">>} \ Present(c) ELSE {})

\* _validate_yaml_config: the top level, local81.version and default_scope, the
\* shape of scopes, and the databases.
YamlFaults(c) ==
  {x \in Present(c) : x[1] \notin TopLevel}
    \union (Present(c) \intersect {<<"local81", "">>, <<"scopes", "">>})
    \union (IF Cell(c, <<"local81", "version">>, "") = "ok" THEN {} ELSE {<<"local81", "version">>})
    \union {x \in BadChoices(c) : x = <<"local81", "default_scope">> /\ Has(c, "scope")}
    \union YamlDatabase(c)

\* validate_config: a missing file is a warning.
Valid(c) ==
  CASE c.format = "none" -> TRUE
    [] c.format = "ini" -> c.parses /\ IniFaults(c) = {}
    [] c.format = "yaml" -> c.parses /\ YamlFaults(c) = {}

-----------------------------------------------------------------------------
\* The booleans that _base_dict_from_ini reads.
LoadedBooleans ==
  ({"scope"} \X {"enabled", "backup"}) \union ({"defaults"} \X {"backup", "remote_mkdir"})
    \union {<<"notifications", "notify_on_success">>, <<"notification.telegram", "enabled">>,
            <<"notification.email", "enabled">>}
CharAt == <<"routing", "env_from_server_name_char_at">>

IniLoadRaises(c) ==
  \/ \E x \in LoadedBooleans \intersect Present(c) : ~IsBool(c.cell[x])
  \/ CharAt \in Present(c) /\ ~IsInt(c.cell[CharAt])

\* YAML: what is not a mapping has no `.get` or `.items`; int() takes booleans.
YamlLoadRaises(c) ==
  \/ \E s \in {"top", "local81", "defaults", "routing", "scopes", "scope"} : <<s, "">> \in Present(c)
  \/ CharAt \in Present(c) /\ c.cell[CharAt] \in {"ok", "text", ""}
  \/ \E k \in {"source_dir", "target_dir"} : Cell(c, <<"scope", k>>, "text") \notin {"ok", "text", ""}

\* load_config of a file that is there.
LoadRaises(c) == ~c.parses \/ (IF c.format = "ini" THEN IniLoadRaises(c) ELSE YamlLoadRaises(c))

\* load_database_targets: _normalize_target, whatever the format.
DatabasesRaise(c) ==
  ~c.parses \/ BadDatabase(c) # {} \/ SecretKeys \intersect Present(c) # {}
    \/ (Has(c, "database") /\ <<"database", "engine">> \notin Present(c))

-----------------------------------------------------------------------------
\* One name stands for a comma-separated list.
Csv(v) == IF v = "" THEN {} ELSE {v}

PolicyBooleans ==
  ({"access"} \X {"deny_root", "allow_remote_cmd"}) \union {<<"access.providers", "fail_closed">>}
    \union (Providers \X {"enabled", "fail_closed"})

\* load_access_policy: only an INI file with an [access] section has a policy;
\* a boolean that does not parse keeps its default and is an error.
Policy(c) ==
  LET configured == c.format = "ini" /\ c.parses /\ Has(c, "access")
      Names(key) == IF configured THEN Csv(Cell(c, <<"access", key>>, "")) ELSE {}
      Flag(key, default) == LET v == Cell(c, <<"access", key>>, "")
                            IN IF configured /\ IsBool(v) THEN True(v) ELSE default
      bad == {x \in PolicyBooleans \intersect Present(c) : ~IsBool(c.cell[x])}
  IN [allowedUsers |-> Names("allowed_users"), deniedUsers |-> Names("denied_users"),
      allowedGroups |-> Names("allowed_groups"),
      denyRoot |-> Flag("deny_root", FALSE), allowRemoteCmd |-> Flag("allow_remote_cmd", TRUE),
      errors |-> CASE c.format = "ini" /\ ~c.parses -> {<<"file", "syntax">>}
                   [] configured -> bad
                   [] OTHER -> {}]

\* evaluate_actor.
ActorRefused(p, actor) ==
  \/ p.denyRoot /\ actor.root
  \/ actor.user \in p.deniedUsers
  \/ p.allowedUsers # {} /\ actor.user \notin p.allowedUsers
  \/ p.allowedGroups # {} /\ actor.groups \intersect p.allowedGroups = {}

\* evaluate_plan, over the steps that --scope leaves.
PlanRefused(p, steps) == ~p.allowRemoteCmd /\ \E s \in steps : s.type = "remote_cmd"

\* enforce_deploy_policy has a FAIL.
Blocked(c, actor, steps) ==
  Policy(c).errors # {} \/ ActorRefused(Policy(c), actor) \/ PlanRefused(Policy(c), steps)
=============================================================================
