--------------------------- MODULE PipelineConfig ---------------------------
(***************************************************************************)
(* Declarative pipelines (config/pipeline_config.py): which documents load *)
(* and as what, what is written for a configuration, what the editor of    *)
(* the Local Lab makes of a form (ui/app.py), and which configurations     *)
(* build.                                                                  *)
(*                                                                         *)
(* A document maps keys to YAML values.  Of the plain options, which are   *)
(* copied as they are, one stands for all: "select" for those the editor   *)
(* has no input for, "columns" for those it has; and only columns make a   *)
(* document as long as MAX_PIPELINE_CONFIG_BYTES.                          *)
(***************************************************************************)
EXTENDS Naturals

Null == [kind |-> "null"]
Flag(b) == [kind |-> "bool", flag |-> b]
Num(n) == [kind |-> "number", number |-> n]
Text(t) == [kind |-> "text", text |-> t]
List(l) == [kind |-> "list", list |-> l]  \* "none", "few", "huge", ...
Map(m) == [kind |-> "map", of |-> m]
Secret == [kind |-> "secret"]        \* a password, token, ... in plain text
SecretRef == [kind |-> "reference"]  \* ${SECRET:NAME}

(* A file that was truncated, or that is no mapping.                       *)
Empty == [k \in {} |-> Null]

(* dict.get                                                                *)
Get(m, k) == IF k \in DOMAIN m THEN m[k] ELSE Null
Sub(m, k) == IF Get(m, k).kind = "map" THEN Get(m, k).of ELSE Empty
TextOf(v) == IF v.kind = "text" THEN v.text ELSE "None"
TypeIn(m, k, default) ==
    IF Get(m, k).kind = "text" THEN Get(m, k).text
    ELSE IF "type" \in DOMAIN Sub(m, k) THEN TextOf(Sub(m, k)["type"]) ELSE default
ColumnsIn(d) == IF "columns" \in DOMAIN d THEN d["columns"] ELSE List("none")

(* _strict_bool                                                            *)
IsStrictBool(v) == v.kind \in {"null", "bool"}
IsThere(v, default) == IF v = Null THEN default ELSE TRUE
StrictBool(v, default) == IF v = Null THEN default ELSE v.flag
-----------------------------------------------------------------------------
(* _validate_shape: known keys, and values of the kinds each key may have. *)
RootKeys == {"version", "name", "connector", "columns", "destination", "state",
             "state_store", "transform", "secrets", "run_log"}
ConnectorKeys == {"base_url", "auth", "pagination", "incremental", "select",
                  "params", "state_key", "primary_key", "dedup"}
ConnectorPartKeys ==
    [auth |-> {"type", "secret_key"}, pagination |-> {"type"},
     incremental |-> {"enabled", "mode", "date_field", "field"}]
PartKeys ==
    [destination |-> {"type", "path"}, state |-> {"type", "path"},
     state_store |-> {"type", "path"}, transform |-> {"type"},
     secrets |-> {"type", "path", "allow_inline_values"}, run_log |-> {"enabled"}]

IsKind(m, k, kinds) == Get(m, k).kind \in {"null"} \union kinds
StateKeyOf(d) == IF "state" \in DOMAIN d THEN "state" ELSE "state_store"

ShapeIsValid(d) ==
    /\ DOMAIN d \subseteq RootKeys
    /\ Get(d, "connector").kind = "map"
    /\ LET c == d["connector"].of IN
        /\ DOMAIN c \subseteq ConnectorKeys
        /\ IsKind(c, "auth", {"map"})
        /\ IsKind(c, "pagination", {"bool", "text", "map"})
        /\ IsKind(c, "incremental", {"bool", "text", "map"})
        /\ IsKind(c, "params", {"map"})
        /\ \A k \in DOMAIN ConnectorPartKeys :
              DOMAIN Sub(c, k) \subseteq ConnectorPartKeys[k]
    /\ ColumnsIn(d).kind = "list"
    /\ IsKind(d, "destination", {"map"})
    /\ ~({"state", "state_store"} \subseteq DOMAIN d)
    /\ IsKind(d, StateKeyOf(d), {"text", "map"})
    /\ IsKind(d, "secrets", {"map"})
    /\ IsKind(d, "run_log", {"bool", "map"})
    /\ IsKind(d, "transform", {"text", "map"})
    /\ \A k \in DOMAIN PartKeys : DOMAIN Sub(d, k) \subseteq PartKeys[k]

(* _validate_no_inline_secrets                                             *)
NoInlineSecrets(d) ==
    \/ StrictBool(Get(Sub(d, "secrets"), "allow_inline_values"), FALSE)
    \/ \A k \in DOMAIN Sub(Sub(d, "connector"), "params") :
          Sub(Sub(d, "connector"), "params")[k] # Secret

(* ConnectorConfig.__post_init__                                           *)
IdentityIsValid(dedup, primaryKey) == dedup => primaryKey # Null

(* pipeline_config_from_dict raises PipelineConfigError otherwise.         *)
Loads(d) ==
    /\ ShapeIsValid(d)
    /\ "name" \in DOMAIN d /\ "base_url" \in DOMAIN Sub(d, "connector")
    /\ "version" \in DOMAIN d => d["version"] = Num(1)
    /\ IsStrictBool(Get(Sub(d, "secrets"), "allow_inline_values"))
    /\ NoInlineSecrets(d)
    /\ LET c == Sub(d, "connector") IN
        /\ IsStrictBool(Get(Sub(c, "incremental"), "enabled"))
        /\ IsStrictBool(Get(c, "dedup"))
        /\ IdentityIsValid(StrictBool(Get(c, "dedup"), FALSE), Get(c, "primary_key"))
    /\ IsStrictBool(Get(Sub(d, "run_log"), "enabled"))

(* load_pipeline_config refuses a file of more than 1 MiB.                 *)
TooLarge(d) == ColumnsIn(d) = List("huge")
LoadsFile(d) == ~TooLarge(d) /\ Loads(d)
-----------------------------------------------------------------------------
Off == [enabled |-> FALSE, mode |-> "ingestion_date", field |-> Null]

(* _incremental_from_value                                                 *)
IncrementalFrom(v) ==
    CASE v.kind = "null" -> Off
      [] v.kind = "bool" -> [Off EXCEPT !.enabled = v.flag]
      [] v.kind = "text" ->
            IF v.text \in {"none", "off", "false", "no"} THEN Off
            ELSE [enabled |-> TRUE, mode |-> "data_date", field |-> v]
      [] v.kind = "map" ->
            LET field == Get(v.of, IF "date_field" \in DOMAIN v.of
                                   THEN "date_field" ELSE "field") IN
            [enabled |-> StrictBool(Get(v.of, "enabled"), TRUE),
             mode |-> IF Get(v.of, "mode") # Null THEN v.of["mode"].text
                      ELSE IF field # Null THEN "data_date" ELSE "ingestion_date",
             field |-> field]

(* _pagination_from_value                                                  *)
PaginationFrom(v) ==
    CASE v.kind = "bool" -> IF v.flag THEN "auto" ELSE "none"
      [] v.kind = "text" -> v.text
      [] OTHER -> IF v.kind = "map" /\ "type" \in DOMAIN v.of
                  THEN TextOf(v.of["type"]) ELSE "auto"

(* _run_log_from_value                                                     *)
RunLogFrom(v) ==
    CASE v.kind = "bool" -> v.flag
      [] v.kind = "null" -> TRUE
      [] v.kind = "map" -> StrictBool(Get(v.of, "enabled"), TRUE)

(* pipeline_config_from_dict, of a document that loads.                    *)
ConfigOf(d) ==
    LET c == Sub(d, "connector") IN
    [name |-> d["name"].text, baseUrl |-> c["base_url"],
     auth |-> [type |-> TypeIn(c, "auth", "none"),
               key |-> Get(Sub(c, "auth"), "secret_key")],
     pagination |-> PaginationFrom(Get(c, "pagination")),
     incremental |-> IncrementalFrom(Get(c, "incremental")),
     select |-> Get(c, "select"),
     params |-> Sub(c, "params"),
     stateKey |-> Get(c, "state_key"),
     primaryKey |-> Get(c, "primary_key"),
     dedup |-> StrictBool(Get(c, "dedup"), FALSE),
     columns |-> ColumnsIn(d),
     destination |-> TypeIn(d, "destination", "duckdb"),
     path |-> Get(Sub(d, "destination"), "path"),
     state |-> TypeIn(d, StateKeyOf(d), "auto"),
     statePath |-> Get(Sub(d, StateKeyOf(d)), "path"),
     transform |-> TypeIn(d, "transform", "none"),
     secrets |-> TypeIn(d, "secrets", "env"),
     secretsPath |-> Get(Sub(d, "secrets"), "path"),
     inline |-> StrictBool(Get(Sub(d, "secrets"), "allow_inline_values"), FALSE),
     runLog |-> RunLogFrom(Get(d, "run_log"))]

(* pipeline_config_to_dict: every option is written.                       *)
DocumentOf(c) ==
    [version |-> Num(1), name |-> Text(c.name),
     connector |-> Map(
        [base_url |-> c.baseUrl, select |-> c.select, params |-> Map(c.params),
         auth |-> Map([type |-> Text(c.auth.type), secret_key |-> c.auth.key]),
         pagination |-> Map([type |-> Text(c.pagination)]),
         incremental |-> Map([enabled |-> Flag(c.incremental.enabled),
                              mode |-> Text(c.incremental.mode),
                              date_field |-> c.incremental.field]),
         state_key |-> c.stateKey, primary_key |-> c.primaryKey,
         dedup |-> Flag(c.dedup)]),
     columns |-> c.columns,
     destination |-> Map([type |-> Text(c.destination), path |-> c.path]),
     state |-> Map([type |-> Text(c.state), path |-> c.statePath]),
     transform |-> Map([type |-> Text(c.transform)]),
     secrets |-> Map([type |-> Text(c.secrets), path |-> c.secretsPath,
                      allow_inline_values |-> Flag(c.inline)]),
     run_log |-> Map([enabled |-> Flag(c.runLog)])]
-----------------------------------------------------------------------------
(* write_text writes the document from its first byte to its last, in this *)
(* order (sort_keys=False), and may stop anywhere: at the end of a buffer, *)
(* when the disk is full, or dead.                                         *)
KeyOrder ==
    [root |-> <<"version", "name", "connector", "columns", "destination", "state",
                "transform", "secrets", "run_log">>,
     connector |-> <<"base_url", "auth", "pagination", "incremental", "select",
                     "params", "state_key", "primary_key", "dedup">>,
     auth |-> <<"type", "secret_key">>, pagination |-> <<"type">>,
     incremental |-> <<"enabled", "mode", "date_field">>, params |-> <<>>,
     destination |-> <<"type", "path">>, state |-> <<"type", "path">>,
     transform |-> <<"type">>, secrets |-> <<"type", "path", "allow_inline_values">>,
     run_log |-> <<"enabled">>]

UpTo(order, k) ==
    {order[i] : i \in {i \in DOMAIN order :
                          \E j \in DOMAIN order : i <= j /\ order[j] = k}}

(* A mapping that stops at the key k, with last for its value; all those   *)
(* that stop in one of the values ends[k].                                 *)
Beginning(m, order, k, last) ==
    [n \in UpTo(order, k) |-> IF n = k THEN last ELSE m[n]]
HeadsOf(m, order, ends) ==
    UNION {{Beginning(m, order, k, v) : v \in ends[k]} : k \in DOMAIN ends}

(* What YAML reads of a value that stops: nothing yet, a part, or all.     *)
(* A part of true or null is a text; a part of {} or [] is no YAML.        *)
Cut == Text("cut")
PartsOfLeaf(v) ==
    CASE v = List("none") -> {Null, v}
      [] v.kind = "list" /\ v # List("none") -> {Null, List("cut"), v}
      [] OTHER -> {Null, Cut, v}
PartsOf(v, k) ==
    IF v.kind # "map" THEN PartsOfLeaf(v)
    ELSE IF v.of = Empty THEN {Null, v}
    ELSE {Null} \union
         {Map(h) : h \in HeadsOf(v.of, KeyOrder[k],
                                 [n \in DOMAIN v.of |-> PartsOfLeaf(v.of[n])])}
Stopped(d, k) ==
    IF k # "connector" THEN PartsOf(d[k], k)
    ELSE LET c == d["connector"].of IN
         {Null} \union {Map(h) : h \in HeadsOf(c, KeyOrder["connector"],
                                               [n \in DOMAIN c |-> PartsOf(c[n], n)])}

(* The documents that stop in the section k, and load nevertheless, what   *)
(* was to follow at its default.  The rest is refused as an empty file is. *)
HeadsIn(d, k) ==
    {h \in {Beginning(d, KeyOrder["root"], k, v) : v \in Stopped(d, k)} : LoadsFile(h)}
-----------------------------------------------------------------------------
(* What the edit page shows of a configuration.                            *)
FormOf(c) ==
    [name |-> c.name, baseUrl |-> c.baseUrl, auth |-> c.auth,
     pagination |-> c.pagination, mode |-> c.incremental.mode,
     field |-> c.incremental.field, primaryKey |-> c.primaryKey, dedup |-> c.dedup,
     columns |-> c.columns, transform |-> c.transform, runLog |-> c.runLog]

(* _config_from_form: what the form does not show takes its default, and   *)
(* a saved pipeline is incremental.                                        *)
FormIsValid(f) == f.baseUrl # Null /\ IdentityIsValid(f.dedup, f.primaryKey)

ConfigFromForm(f) ==
    [name |-> f.name, baseUrl |-> f.baseUrl, auth |-> f.auth,
     pagination |-> f.pagination,
     incremental |-> [enabled |-> TRUE, mode |-> f.mode, field |-> f.field],
     select |-> Null, params |-> Empty, stateKey |-> Null,
     primaryKey |-> f.primaryKey, dedup |-> f.dedup, columns |-> f.columns,
     destination |-> "duckdb", path |-> Null, state |-> "auto",
     statePath |-> Null, transform |-> f.transform, secrets |-> "env",
     secretsPath |-> Null, inline |-> FALSE, runLog |-> f.runLog]
-----------------------------------------------------------------------------
(* What a connector is built from, for a pipeline or for a profile: the    *)
(* parts of the configuration that raise, and RestConnector.               *)
SecretsBuild(c) ==
    c.secrets = "env" \/ (c.secrets = "file" /\ c.secretsPath # Null)
AuthBuilds(c) ==
    c.auth.type = "none" \/ (c.auth.type \in {"bearer", "api_key"} /\ c.auth.key # Null)
StandardPagination == {"none", "auto", "page", "offset", "cursor", "link_header", "next_url"}
PaginationBuilds(c) == c.pagination \in StandardPagination
ModeIsKnown(c) == c.incremental.mode \in {"data_date", "ingestion_date"}
DateFieldIsGiven(c) ==
    c.incremental.enabled /\ c.incremental.mode = "data_date" => c.incremental.field # Null

ConnectorBuilds(c) ==
    /\ c.baseUrl # Null
    /\ SecretsBuild(c) /\ AuthBuilds(c) /\ PaginationBuilds(c)
    /\ ModeIsKnown(c) /\ DateFieldIsGiven(c)

(* The adapters of the local runtimes (those for Delta are left out): the  *)
(* caller has a connection for a DuckDB destination, Parquet needs a path, *)
(* and state kept in a file has one of its own or a place next to the data.*)
HasConnection(c) == c.destination = "duckdb"
DestinationBuilds(c) ==
    HasConnection(c) \/ (c.destination = "parquet" /\ c.path # Null)

NaturalState == [duckdb |-> "duckdb", parquet |-> "file"]
StateType(c) == IF c.state = "auto" THEN NaturalState[c.destination] ELSE c.state
StateFileIsPlaced(c) == c.statePath # Null \/ c.path # Null
StateBuilds(c) ==
    \/ StateType(c) = "duckdb" /\ HasConnection(c)
    \/ StateType(c) = "file" /\ StateFileIsPlaced(c)

AdaptersBuild(c) ==
    DestinationBuilds(c) /\ (c.incremental.enabled => StateBuilds(c))

(* build_pipeline, which may also miss a secret the configuration names.   *)
Builds(c) ==
    /\ c.transform \in {"none", "dbt"}
    /\ AdaptersBuild(c) /\ ConnectorBuilds(c)
NeedsSecret(c) == \E k \in DOMAIN c.params : c.params[k] = SecretRef
=============================================================================
