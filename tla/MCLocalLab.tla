----------------------------- MODULE MCLocalLab -----------------------------
(* Three tasks, pipelines and forms, two saves and one crash: see README.  *)
EXTENDS LocalLab, TLC

Doc(n, connector, rest) ==
    [version |-> Num(1), name |-> Text(n),
     connector |-> Map([base_url |-> Text("url")] @@ connector)] @@ rest
ToParquet == [destination |-> Map([type |-> Text("parquet"), path |-> Text("data")])]

(* "orders" goes to Parquet, "events" to the warehouse and to dbt; the     *)
(* variants of "lone" are loaded by one task alone.                        *)
Orders == Doc("orders", Empty, ToParquet)
Events == Doc("events", [incremental |-> Text("date"), state_key |-> Text("k")],
              [transform |-> Text("dbt")])
Lone ==
        {Doc("lone", c, r) :
            c \in {Empty, [incremental |-> Flag(TRUE)], [incremental |-> Flag(FALSE)],
                   [incremental |-> Map([mode |-> Text("data_date")])],
                   [incremental |-> Map([field |-> Text("date"), enabled |-> Text("yes")])],
                   [incremental |-> Map([field |-> Text("date")])],
                   [params |-> Map([token |-> Secret])],
                   [params |-> Map([token |-> SecretRef]), pagination |-> Flag(FALSE)],
                   [dedup |-> Flag(TRUE)], [unknown |-> Null],
                   [auth |-> Map([type |-> Text("bearer")])],
                   [auth |-> Map([type |-> Null]), pagination |-> Map([type |-> Null])],
                   [dedup |-> Flag(TRUE), primary_key |-> Text("id"),
                    pagination |-> Text("pages")]},
            r \in {Empty, ToParquet, ToParquet @@ [transform |-> Text("dbt")],
                   [state |-> Text("file")], [columns |-> Null], [columns |-> List("huge")],
                   [state |-> Map([type |-> Text("file"), path |-> Text("s.json")])],
                   [state |-> Text("file"), state_store |-> Text("file")],
                   [transform |-> Text("spark"), run_log |-> Flag(FALSE)],
                   [secrets |-> Map([type |-> Text("file"),
                                     allow_inline_values |-> Flag(TRUE)])],
                   [secrets |-> Map([type |-> Text("file"), path |-> Text("s.json")]),
                    run_log |-> Map([enabled |-> Flag(FALSE)])]}}

Form(n, mode, field, key, columns, transform) ==
    [name |-> n, baseUrl |-> Text("url"), pagination |-> "page", mode |-> mode,
     field |-> field,
     auth |-> [type |-> IF key = Null THEN "none" ELSE "api_key", key |-> key],
     primaryKey |-> key, dedup |-> key # Null, columns |-> List(columns),
     transform |-> transform, runLog |-> key = Null]
MCForms ==
    {Form("events", "data_date", Text("date"), Text("id"), "few", "none"),
     Form("events", "ingestion_date", Null, Null, "none", "dbt"),
     Form("lone", "data_date", Text("date"), Text("id"), "huge", "dbt")}

(* The kinds of the three tasks, their pipelines, saves, where these may   *)
(* stop, and crashes.                                                      *)
Scenario(kinds, names, lone, n, ks, m) ==
    [kind |-> kinds, pipeline |-> names, saves |-> n, cuts |-> ks, crashes |-> m,
     project |-> kinds[1] # "detail",
     file |-> [orders |-> Orders, events |-> Events, lone |-> lone]]
At(kinds, names, n, ks, m) ==
    Scenario(kinds, names,
             Doc("lone", [params |-> Map([token |-> SecretRef]), dedup |-> Flag(FALSE)],
                 ToParquet @@ [transform |-> Text("dbt")]), n, ks, m)
OnEvents == <<"events", "events", "events">>

MCScenarios ==
    {At(<<"run", "run", "detail">>, OnEvents, 1, {}, 0),
     At(<<"run", "run", "cli">>, <<"events", "orders", "orders">>, 0, {}, 1),
     At(<<"run", "flow", "data">>, OnEvents, 0, {}, 1),
     At(<<"detail", "flow", "run">>, OnEvents, 0, {}, 1),
     At(<<"cli", "dashboard", "preview">>, OnEvents, 0, {}, 1)}
    \union
    {Scenario(<<"profile", "run", "cli">>, <<"lone", "lone", "lone">>, d, 0, {}, 0) :
        d \in Lone}
    \union
    (* The editor at work, and whoever loads the file meanwhile.           *)
    {At(<<"detail", "profile", "preview">>, OnEvents, 1, Sections, 0),
     At(<<"run", "profile", "preview">>, OnEvents, 1, {"columns", "run_log"}, 1),
     At(<<"detail", "profile", "preview">>, OnEvents, 2, {"columns"}, 0)}
=============================================================================
