----------------------------- MODULE MCRepository ------------------------------
(* A small repository, the edits made to it and what the scanner answers. *)
EXTENDS Repository

Nothing == [x \in {} |-> ""]
Stable == [lifecycle |-> "stable", evidence |-> <<"documented">>]

Raw(id) == [prefix |-> Placeholder, id |-> id]
Literal(prefix, id) == [prefix |-> prefix, id |-> id]
Recording(id) == [prefix |-> Recorded, id |-> id]
Unnamed == [prefix |-> "", id |-> ""]

Expr(metrics) == [metrics |-> metrics, matchers |-> {"cluster"}, by |-> {"cluster"},
                  windows |-> {}, parses |-> TRUE]
LogExpr(labels) == [metrics |-> {}, matchers |-> labels, by |-> {}, windows |-> {}, parses |-> TRUE]

Record(name, id) == [record |-> name, expr |-> Expr({Raw(id)})]
Runbook(name) == [dir |-> "docs/runbooks", name |-> name]

MCAlert(id, type, severity, expr) ==
    [id |-> id, type |-> type, severity |-> severity, signal |-> "s", for |-> "5m",
     expression |-> expr, summary |-> "s", description |-> "d", runbook |-> Runbook("sealed"),
     labels |-> Nothing, annotations |-> {}]

AlertContract(alerts) == [version |-> "v0.1", maturity |-> Stable, variable |-> "",
                          sourcePrefix |-> "", alerts |-> alerts]

Sealed == MCAlert("Sealed", "prometheus", "critical", Expr({Recording("unsealed")}))
NoLogs == MCAlert("NoLogs", "loki", "critical", LogExpr({"log_stream"}))
Slow   == MCAlert("Slow", "prometheus", "warning", Expr({Recording("latency"), Raw("core_active")}))
Peers  == MCAlert("Peers", "prometheus", "warning", Expr({Recording("peers")}))

Panel(id, type, signal, expr, x) ==
    [id |-> id, title |-> id, type |-> type, signal |-> signal, datasource |-> signal,
     expression |-> expr, grid |-> [x |-> x, y |-> 0, w |-> 12, h |-> 8],
     thresholds |-> IF type = "stat"
                    THEN <<[value |-> {}, color |-> "green"], [value |-> {1}, color |-> "red"]>>
                    ELSE << >>,
     valueMappings |-> << >>, colorMode |-> "", noData |-> ""]

Windowed == [Expr({Recording("latency")}) EXCEPT !.windows = {"window"}]

Dashboard(uid, panels) ==
    [version |-> "v0.1", maturity |-> Stable, uid |-> uid, title |-> uid, refresh |-> "30s",
     from |-> "now-1h", to |-> "now",
     datasources |-> [metrics |-> [type |-> "prometheus", uid |-> "prometheus"],
                      logs    |-> [type |-> "loki", uid |-> "loki"]],
     variables |-> <<[name |-> "window", type |-> "custom", default |-> "5m", options |-> <<"5m", "1h">>]>>,
     panels |-> panels]

Overview == Dashboard("overview",
                      <<Panel("sealed", "stat", "metrics", Expr({Recording("unsealed")}), 0),
                        Panel("latency", "timeseries", "metrics", Windowed, 12)>>)
Audit == Dashboard("audit", <<Panel("logs", "logs", "logs", LogExpr({"log_stream", "cluster"}), 0)>>)

Metric(id, required) ==
    [id |-> id, prometheusName |-> Raw(id), fixtureName |-> Unnamed, required |-> required,
     coverage |-> Nothing]

Profile(class, expectation) == [class |-> class, defaultExpectation |-> expectation]

Metrics ==
    [version |-> "v0.1", maturity |-> Stable, openbaoVersion |-> "2.7.0",
     verificationVersions |-> <<"2.6.3", "2.7.0">>, recordingRulePrefix |-> "openbao",
     supported |-> <<"vault", "openbao">>, default |-> "vault",
     requiredFixtures |-> <<"vault-prefix", "openbao-prefix">>,
     coverageProfiles |-> ("vault-prefix" :> Profile("prefix-smoke", "optional"))
                          @@ ("openbao-prefix" :> Profile("prefix-smoke", "optional"))
                          @@ ("raft-vault-node0" :> Profile("ha-raft-active", "not-applicable")),
     metrics |-> <<Metric("core_active", TRUE), Metric("core_unsealed", FALSE)>>]

Streams ==
    [version |-> "v0.1", maturity |-> Stable,
     streams |-> <<[id |-> "audit", default |-> "yes", source |-> "file", format |-> "json",
                    access |-> "restricted", retention |-> "1y"]>>,
     allowedLabels |-> <<"log_stream", "cluster">>, forbiddenLabels |-> <<"token", "policy">>]

BaseSources ==
    [records    |-> <<Record("unsealed", "core_unsealed"), Record("latency", "core_latency"),
                      Record("peers", "raft_peers")>>,
     alerts     |-> ("critical" :> AlertContract(<<Sealed, NoLogs>>))
                    @@ ("warning" :> AlertContract(<<Slow, Peers>>)),
     dashboards |-> ("overview" :> Overview) @@ ("audit" :> Audit),
     metrics    |-> Metrics,
     streams    |-> Streams,
     runbooks   |-> {Runbook("sealed"), Runbook("slow")},
     index      |-> {Runbook("sealed")},
     streamDashboards |-> {"audit"},
     makefile   |-> [version |-> "2.7.0", alerts |-> <<"critical", "warning">>,
                     severity |-> ("critical" :> "critical") @@ ("warning" :> "warning"),
                     dashboards |-> <<"overview", "audit">>,
                     contracts |-> <<"overview", "audit">>, generated |-> <<"overview", "audit">>]]

WithAlerts(critical, warning) ==
    [BaseSources EXCEPT !.alerts = ("critical" :> critical) @@ ("warning" :> warning)]
Warnings(alerts) == WithAlerts(AlertContract(<<Sealed, NoLogs>>), AlertContract(alerts))
WithSlow(f) == Warnings(<<f @@ Slow, Peers>>)
NewExpr(e) == [expression |-> e]
WithPanel(p) == [BaseSources EXCEPT !.dashboards = ("overview" :> Dashboard("overview", <<p>>)) @@ @]
Three == <<"overview", "audit", "raft">>
Added == [BaseSources EXCEPT
             !.dashboards = @ @@ ("raft" :> Dashboard("raft", Overview.panels)),
             !.makefile.dashboards = Three, !.makefile.contracts = Three, !.makefile.generated = Three]
NewRecord == [BaseSources EXCEPT !.records = Append(@, Record("lag", "raft_lag"))]

MCContents ==
    [base         |-> BaseSources,
     \* A recording rule added or dropped with the alert or panel that reads it.
     recordAlert  |-> [NewRecord EXCEPT !.alerts["warning"].alerts =
                          Append(@, MCAlert("Lag", "prometheus", "warning", Expr({Recording("lag")})))],
     recordPanel  |-> [NewRecord EXCEPT !.dashboards["overview"].panels =
                          Append(@, Panel("lag", "stat", "metrics", Expr({Recording("lag")}), 0))],
     recordGone   |-> [Warnings(<<Slow>>) EXCEPT !.records = SubSeq(@, 1, 2)],
     undefined    |-> WithSlow(NewExpr(Expr({Recording("lag")}))),
     \* Alerts renamed, moved to the other file or defined in both.
     renamed      |-> WithSlow([id |-> "Slower"]),
     moved        |-> WithAlerts(AlertContract(<<Sealed>>),
                                 AlertContract(<<Slow, [NoLogs EXCEPT !.severity = "warning"]>>)),
     duplicate    |-> Warnings(<<Slow, [Sealed EXCEPT !.severity = "warning"]>>),
     noWarnings   |-> [BaseSources EXCEPT !.alerts = ("critical" :> @["critical"])],
     \* Expressions and labels the check must refuse, and one that does not parse.
     rawVault     |-> WithSlow(NewExpr(Expr({Literal("vault", "core_active")}))),
     rawOpenbao   |-> WithSlow(NewExpr(Expr({Literal("openbao", "core_active")}))),
     archive      |-> WithSlow(NewExpr(Expr({Literal("openbao_audit_archive", "ok")}))),
     openbaoFirst |-> WithAlerts([AlertContract(<<Sealed, NoLogs>>) EXCEPT !.sourcePrefix = "openbao"],
                                 AlertContract(<<Slow, Peers>>)),
     tokenLabel   |-> WithSlow(NewExpr([Expr({Recording("latency")}) EXCEPT !.by = {"token"}])),
     logLabel     |-> WithAlerts(AlertContract(<<Sealed, [NoLogs EXCEPT !.expression = LogExpr({"path"})]>>),
                                 AlertContract(<<Slow, Peers>>)),
     reserved     |-> WithSlow([labels |-> [severity |-> "page"]]),
     badExpr      |-> WithSlow(NewExpr([Expr({}) EXCEPT !.parses = FALSE])),
     critical     |-> WithSlow([severity |-> "critical"]),
     noIndex      |-> WithSlow([runbook |-> Runbook("slow")]),
     noRunbook    |-> WithSlow([runbook |-> Runbook("gone")]),
     \* Dashboards added, removed, not listed, and panels out of shape.
     dashAdded    |-> Added,
     dashUnlisted |-> [Added EXCEPT !.makefile.generated = <<"overview", "audit">>],
     dashUnmade   |-> [Added EXCEPT !.makefile.dashboards = <<"overview", "audit">>],
     dashRemoved  |-> [BaseSources EXCEPT
                          !.dashboards = ("overview" :> Overview), !.streamDashboards = {},
                          !.makefile.dashboards = <<"overview">>, !.makefile.contracts = <<"overview">>,
                          !.makefile.generated = <<"overview">>],
     panelEdited  |-> WithPanel(Panel("latency", "timeseries", "metrics", Windowed, 0)),
     tooWide      |-> WithPanel(Panel("latency", "timeseries", "metrics", Windowed, 13)),
     noColors     |-> WithPanel([Panel("x", "stat", "metrics", Windowed, 0) EXCEPT
                                    !.thresholds = <<[value |-> {1}, color |-> "red"]>>]),
     noRefresh    |-> [BaseSources EXCEPT !.dashboards["audit"].refresh = ""],
     \* Metrics that become required, in one profile or in none.
     required     |-> [BaseSources EXCEPT !.metrics.metrics[2].required = TRUE],
     requiredHalf |-> [BaseSources EXCEPT !.metrics.metrics =
                          Append(@, [Metric("half", TRUE) EXCEPT !.coverage =
                                        [x \in {"openbao-prefix"} |-> "optional"]])],
     unreleased   |-> [BaseSources EXCEPT !.makefile.version = "2.8.0"]]

------------------------------------------------------------------------------

Names3(prefix, ids) == {Literal(prefix, id) : id \in ids}
Both == {"core_active", "core_unsealed"}

MCFresh ==
    ("vault-prefix" :> Names3("vault", Both \union {"half"}))
    @@ ("openbao-prefix" :> Names3("openbao", Both))
    @@ ("raft-vault-node0" :> Names3("vault", {"core_active"}))

\* An older capture, and one that failed before the openbao profile.
MCOlder == [MCFresh EXCEPT !["openbao-prefix"] = {}]
MCPartial == ("vault-prefix" :> MCFresh["vault-prefix"])

MCLocalFixtures == {MCFresh, MCOlder, MCPartial}
MCNamedIn == ("vault-prefix" :> {"vault"}) @@ ("openbao-prefix" :> {"openbao"})
             @@ ("raft-vault-node0" :> {"vault"})

\* Files of every surface, and of the profiles that differ in what checks them.
MCByHand == {<<"operator", "openbao", RecordingFile>>, <<"native", "default", "warning">>,
             <<"loki", "vault", "critical">>, <<"grafana", "default", "audit">>}

Line(kind, id) == [kind |-> kind, id |-> id]
Block(id) == <<Line("header", id), Line("text", id)>>
Summary == <<Line("summary", "")>>
Long == <<Line("long", "")>>
Scan(found, lines) ==
    [readable |-> TRUE, show |-> FALSE,
     json   |-> [started |-> TRUE, rc |-> 0, parses |-> TRUE, found |-> found],
     traces |-> [started |-> TRUE, rc |-> 3, lines |-> lines]]

MCScans ==
    {Scan({}, << >>),
     Scan({"old"}, Block("old") \o Summary),
     [Scan({"old"}, Block("old") \o Summary) EXCEPT !.show = TRUE],
     Scan({"new"}, Block("new") \o Summary),
     Scan({"old", "new"}, Block("old") \o Block("new") \o Summary),
     Scan({"old", "new"}, Block("new") \o Block("old") \o Summary \o Block("new")),
     Scan({"new"}, <<Line("text", "new")>>),
     Scan({"old", "new"}, Block("new") \o Block("old") \o Long),
     [Scan({"new"}, << >>) EXCEPT !.traces.rc = 1],
     [Scan({}, << >>) EXCEPT !.json.rc = 1],
     [Scan({"new"}, << >>) EXCEPT !.json.parses = FALSE],
     [Scan({}, << >>) EXCEPT !.json.started = FALSE],
     [Scan({"new"}, Block("new")) EXCEPT !.readable = FALSE]}
=============================================================================
