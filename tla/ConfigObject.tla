---------------------------- MODULE ConfigObject ----------------------------
(***************************************************************************)
(* The content of solx-config.json as the config service sees it: a JSON   *)
(* object, here a function from the keys it has to their values.  A JSON   *)
(* list whose order nothing depends on is a set, a JSON map is a function. *)
(* Each mutator of ConfigService is an operator from the object it reads   *)
(* under the lock to the object it writes, or Refused.                     *)
(***************************************************************************)
EXTENDS Naturals, FiniteSets

CONSTANTS
    BadType,     \* a value of a JSON type the typed config does not accept
    Malformed,   \* well-typed values that `validate` refuses (a blank command,
                 \* a prefix without a host, a host that is no IP address ...)
    Refused,     \* the error result of a mutator or a check
    Null         \* JSON null: in a set of changes it removes the key

Urls == "allowed_base_urls"
LegacyUrls == "allowed_webhook_base_urls"
Exclude == "tool_exclude"
LegacyExclude == "mcp_exclude"
Packages == "installed_packages"
Commands == "command_actions"
EnvVars == "env_vars"
Token == "server_token"

\* update folds each former spelling into its current one.
LegacyOf == [k \in {Urls, Exclude} |-> IF k = Urls THEN LegacyUrls ELSE LegacyExclude]

\* The keys SolxConfig types; any other key is carried along unread.
TypedKeys ==
    {Urls, LegacyUrls, Exclude, LegacyExclude, Packages, Commands, EnvVars,
     Token, "server_host", "server_port", "server_cors_origins", "tool_destructive"}

\* Keys read once when a host starts; the others apply to the next use.
RestartKeys ==
    {"data_directory", "files_directory", "docs_db", "actions_db", "types_db",
     "env_mappings", EnvVars, "server_url", Token, "server_port", "server_host",
     "server_cors_origins", "server_embedded", "console_ttl_days",
     "invocation_ttl_days"}

EmptyObject == <<>>

-----------------------------------------------------------------------------
(* Access to one key                                                       *)

Over(new, old) ==
    [k \in DOMAIN new \cup DOMAIN old |-> IF k \in DOMAIN new THEN new[k] ELSE old[k]]

Insert(obj, k, v) == Over([j \in {k} |-> v], obj)

Without(obj, k) == [j \in DOMAIN obj \ {k} |-> obj[j]]

Has(obj, k) == k \in DOMAIN obj

\* A key that is missing or of the wrong type reads as the empty default.
Field(obj, k, default) ==
    IF Has(obj, k) /\ obj[k] # BadType THEN obj[k] ELSE default

\* One value of the wrong type makes the whole typed view the default one.
Snapshot(obj) ==
    IF \E k \in TypedKeys \cap DOMAIN obj : obj[k] = BadType
    THEN EmptyObject
    ELSE obj

-----------------------------------------------------------------------------
(* The two spellings of the outbound allowlist and of the exclude rules    *)

ReadBaseUrls(obj) == Field(obj, Urls, {}) \cup Field(obj, LegacyUrls, {})

WriteBaseUrls(obj, list) == Without(Insert(obj, Urls, list), LegacyUrls)

AllowedBaseUrls(obj) == ReadBaseUrls(Snapshot(obj))

ToolExclude(obj) ==
    LET cfg == Snapshot(obj)
    IN  Field(cfg, Exclude, {}) \cup Field(cfg, LegacyExclude, {})

-----------------------------------------------------------------------------
(* What `validate` checks of a whole object                                *)

ValidFields(obj) ==
    /\ \A k \in {"server_host", "server_port"} \cap DOMAIN obj : obj[k] \notin Malformed
    /\ Field(obj, "server_cors_origins", {}) \cap Malformed = {}
    /\ \A c \in DOMAIN Field(obj, Commands, EmptyObject) :
          c \notin Malformed /\ obj[Commands][c] \notin Malformed
    /\ ReadBaseUrls(obj) \cap Malformed = {}
    /\ (Field(obj, Exclude, {}) \cup Field(obj, LegacyExclude, {})
          \cup Field(obj, "tool_destructive", {})) \cap Malformed = {}

Validate(obj) ==
    /\ \A k \in TypedKeys \cap DOMAIN obj : obj[k] # BadType
    /\ ValidFields(obj)

-----------------------------------------------------------------------------
(* The mutators                                                            *)

PatchObject(obj, changes) == Over(changes, obj)

RegisterPackage(obj, pkg) ==
    Insert(obj, Packages,
           {p \in Field(obj, Packages, {}) : p.name # pkg.name} \cup {pkg})

UnregisterPackage(obj, name) ==
    Insert(obj, Packages, {p \in Field(obj, Packages, {}) : p.name # name})

SetEnvVar(obj, var, value) ==
    Insert(obj, EnvVars, Insert(Field(obj, EnvVars, EmptyObject), var, value))

RegisterCommand(obj, key, def) ==
    Insert(obj, Commands, Insert(Field(obj, Commands, EmptyObject), key, def))

DeregisterCommand(obj, key) ==
    Insert(obj, Commands, Without(Field(obj, Commands, EmptyObject), key))

AddAllowedBaseUrl(obj, prefix) == WriteBaseUrls(obj, ReadBaseUrls(obj) \cup {prefix})

RemoveAllowedBaseUrl(obj, prefix) == WriteBaseUrls(obj, ReadBaseUrls(obj) \ {prefix})

\* What would break it: no second look at the token, under the lock.
EnsureTokenAnew(obj, fresh) == Insert(obj, Token, fresh)

\* A token that is there wins over the one just generated.
EnsureToken(obj, fresh) ==
    IF Field(obj, Token, Refused) # Refused THEN obj ELSE Insert(obj, Token, fresh)

WithChanges(obj, changes) ==
    LET removed == {k \in DOMAIN changes : changes[k] = Null}
    IN  [k \in (DOMAIN obj \cup DOMAIN changes) \ removed |->
            IF k \in DOMAIN changes THEN changes[k] ELSE obj[k]]

\* A written current key swallows its former spelling; the former entries are
\* merged in unless the caller mentioned the former key itself.
Folded(before, changes, obj, k) ==
    LET former == LegacyOf[k]
        merge  == /\ ~Has(changes, former)
                  /\ Has(before, former) /\ before[former] # BadType
                  /\ obj[k] # BadType
    IN  IF ~Has(changes, k) \/ changes[k] = Null
        THEN obj
        ELSE Without(IF merge THEN Insert(obj, k, obj[k] \cup before[former]) ELSE obj,
                     former)

UpdateObject(obj, changes) ==
    LET written == WithChanges(obj, changes)
        folded  == Folded(obj, changes, Folded(obj, changes, written, Urls), Exclude)
    IN  IF Validate(folded) THEN folded ELSE Refused

ChangedKeys(before, after) ==
    {k \in DOMAIN before \cup DOMAIN after :
        ~Has(before, k) \/ ~Has(after, k) \/ before[k] # after[k]}

\* A mutator call as a record: which operation, and its arguments.
Apply(obj, call) ==
    CASE call.op = "set"         -> Insert(obj, call.key, call.value)
      [] call.op = "patch"       -> PatchObject(obj, call.changes)
      [] call.op = "update"      -> UpdateObject(obj, call.changes)
      [] call.op = "set_env"     -> SetEnvVar(obj, call.key, call.value)
      [] call.op = "register_command"   -> RegisterCommand(obj, call.key, call.value)
      [] call.op = "deregister_command" -> DeregisterCommand(obj, call.key)
      [] call.op = "add_url"     -> AddAllowedBaseUrl(obj, call.value)
      [] call.op = "remove_url"  -> RemoveAllowedBaseUrl(obj, call.value)
      [] call.op = "set_urls"    -> WriteBaseUrls(obj, call.value)
      [] call.op = "register"    -> RegisterPackage(obj, call.value)
      [] call.op = "unregister"  -> UnregisterPackage(obj, call.key)
      [] call.op = "token"       -> EnsureToken(obj, call.value)
=============================================================================
