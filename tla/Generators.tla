------------------------------ MODULE Generators -------------------------------
(***************************************************************************)
(* What the generate commands write: recording and alert rules             *)
(* (internal/rules), Grafana dashboards (internal/dashboards) and the      *)
(* compatibility matrix (internal/compatibility).                          *)
(*                                                                         *)
(* A source tree `src` holds the contracts, the recording rules the Go     *)
(* code lists, and what the Makefile, the docs index and the runbooks      *)
(* directory contain; captured fixtures are not part of it.  A generated   *)
(* file is named by <<surface, profile, file>>.                            *)
(***************************************************************************)
EXTENDS Contracts

CONSTANT NamedIn   \* the prefixes the name of a fixture profile contains

Profiles == <<"default", "vault", "openbao">>
RecordingFile == "recording"

\* A rule file: native Prometheus rules, a PrometheusRule or Loki rules.
RuleFile(rules) == [kind |-> "rules", rules |-> rules]
\* What is left of a file when its writer is killed after truncating it.
Empty == [kind |-> "empty"]

prefixOf(profile, default) == IF profile = "default" THEN default ELSE profile

------------------------------------------------------------------------------
(* Rules. *)

\* The code builds recording rules from the source prefix alone.
buildPrometheusRule(records, prefix) ==
    LET Rule(r) == [alert  |-> "",
                    record |-> r.record,
                    expr   |-> RenderExpression([variable |-> ""], r.expr, prefix),
                    for    |-> "",
                    labels |-> [source_prefix |-> prefix],
                    runbook |-> << >>]
    IN  [i \in DOMAIN records |-> Rule(records[i])]

\* The labels of the contract win over the three the generator sets.
alertLabels(a, prefix) ==
    a.labels @@ [severity |-> a.severity, signal |-> a.signal, source_prefix |-> prefix]

runbookURL(runbook) == IF isExternalRunbook(runbook) THEN <<runbook>> ELSE <<"main", runbook>>

buildAlertRules(c, type, prefix) ==
    LET ofType == SelectSeq(c.alerts, LAMBDA a : a.type = type)
        Rule(a) == [alert  |-> a.id,
                    record |-> "",
                    expr   |-> RenderExpression(c, a.expression, prefix),
                    for    |-> a.for,
                    labels |-> alertLabels(a, prefix),
                    runbook |-> runbookURL(a.runbook)]
    IN  [i \in DOMAIN ofType |-> Rule(ofType[i])]

validatePromQL(rules) == \A r \in ToSet(rules) : ParseExpr(r.expr)

------------------------------------------------------------------------------
(* Grafana dashboards. *)

buildGrafanaVariables(variables) ==
    [i \in DOMAIN variables |->
        [name    |-> variables[i].name,
         type    |-> variables[i].type,
         current |-> variables[i].default,
         options |-> IF variables[i].type = "custom" THEN variables[i].options ELSE << >>]]

\* Anything that is not the logs datasource is the metrics one.
datasourceRef(c, name) == c.datasources[IF name = "logs" THEN "logs" ELSE "metrics"]

GrafanaThresholds(p) ==
    IF p.thresholds = << >> THEN <<[value |-> {}, color |-> "green"]>> ELSE p.thresholds

\* A mapping for each value, then one for no data.
valueMappings(p) ==
    p.valueMappings
    \o IF p.noData = "" THEN << >> ELSE <<[value |-> "null+nan", text |-> p.noData, color |-> "gray"]>>

statColorMode(p) ==
    IF p.colorMode # "" THEN p.colorMode
    ELSE IF p.thresholds # << >> \/ \E m \in ToSet(p.valueMappings) : m.color # "" THEN "value"
    ELSE "none"

\* A stat panel asks for one instant, every other metrics panel for a range.
GrafanaTarget(p, datasource) ==
    [expr |-> p.expression, datasource |-> datasource, refId |-> "A",
     instant |-> p.signal = "metrics" /\ p.type = "stat",
     range   |-> p.signal = "metrics" /\ p.type # "stat"]

buildGrafanaPanel(c, p, numericID) ==
    [id         |-> numericID,
     title      |-> p.title,
     type       |-> p.type,
     grid       |-> p.grid,
     datasource |-> datasourceRef(c, p.datasource),
     targets    |-> <<GrafanaTarget(p, datasourceRef(c, p.datasource))>>,
     thresholds |-> GrafanaThresholds(p),
     mappings   |-> valueMappings(p),
     colorMode  |-> IF p.type = "stat" THEN statColorMode(p) ELSE ""]

buildGrafanaDashboard(c) ==
    [kind      |-> "dashboard",
     uid       |-> c.uid,
     title     |-> c.title,
     refresh   |-> c.refresh,
     from      |-> c.from,
     to        |-> c.to,
     variables |-> buildGrafanaVariables(c.variables),
     panels    |-> [i \in DOMAIN c.panels |-> buildGrafanaPanel(c, c.panels[i], i)]]

------------------------------------------------------------------------------
(* The compatibility matrix. *)

\* The fixture profiles of the supported prefixes must exist; others are added.
RequiredProfiles(c) == {prefix \o "-prefix" : prefix \in ToSet(c.supported)}

\* A profile's prefix is the first one its file name contains, or the default.
fixturePrefix(c, profile) ==
    LET named == {i \in DOMAIN c.supported : c.supported[i] \in NamedIn[profile]}
    IN  IF named # {} THEN c.supported[CHOOSE i \in named : \A j \in named : i <= j] ELSE c.default

coverageClass(c, profile) ==
    IF profile \in DOMAIN c.coverageProfiles THEN c.coverageProfiles[profile].class ELSE ""

metricExpectation(c, m, profile) ==
    IF profile \in DOMAIN m.coverage THEN m.coverage[profile]
    ELSE IF coverageClass(c, profile) = "prefix-smoke" /\ m.required THEN "required"
    ELSE IF profile \in DOMAIN c.coverageProfiles THEN c.coverageProfiles[profile].defaultExpectation
    ELSE "unclassified"

missingStatus(expectation) ==
    CASE expectation = "required"       -> "missing-required"
      [] expectation = "optional"       -> "optional-missing"
      [] expectation = "not-applicable" -> "not-applicable"
      [] OTHER                          -> "missing-unclassified"

observeMetric(families, name, expectation) ==
    IF expectation = "variable" THEN "variable"
    ELSE IF name \in families THEN "observed"
    ELSE missingStatus(expectation)

renderMatrix(c, version, fixtures) ==
    [kind    |-> "matrix",
     version |-> version,
     rows    |-> {[metric |-> m.id, required |-> m.required, profile |-> profile,
                   status |-> observeMetric(fixtures[profile],
                                            FixtureName(m, fixturePrefix(c, profile)),
                                            metricExpectation(c, m, profile))] :
                  m \in ToSet(c.metrics), profile \in DOMAIN fixtures}]

------------------------------------------------------------------------------
(* The commands of `make generate`, in its order. *)

Command(verb, file, profile) == [verb |-> verb, file |-> file, profile |-> profile]

Commands(src) ==
    LET alerts == src.makefile.alerts IN
        [i \in DOMAIN Profiles |-> Command("prometheus-rules", RecordingFile, Profiles[i])]
        \o <<Command("compatibility-matrix", "matrix", "default")>>
        \o [i \in 1 .. 3 * Len(alerts) |->
               Command("alert-rules", alerts[(i + 2) \div 3], Profiles[((i + 2) % 3) + 1])]
        \o [i \in DOMAIN src.makefile.dashboards |->
               Command("grafana-dashboard", src.makefile.dashboards[i], "default")]

\* GeneratePrometheusRules: the PrometheusRule first, then the native file.
GeneratePrometheusRules(src, profile) ==
    LET prefix == prefixOf(profile, src.metrics.default)
        rules  == buildPrometheusRule(src.records, prefix)
    IN  [ok     |-> /\ LoadMetricContract(src.metrics)
                    /\ ValidateSourcePrefix(src.metrics, prefix)
                    /\ validatePromQL(rules),
         writes |-> <<[path |-> <<"operator", profile, RecordingFile>>, doc |-> RuleFile(rules)],
                      [path |-> <<"native", profile, RecordingFile>>, doc |-> RuleFile(rules)]>>]

\* Mutant: a contract without Loki alerts writes no Loki file.
GenerateAlertRules_SkipsEmpty(c, file, profile) ==
    LET prefix == prefixOf(profile, DefaultSourcePrefix(c))
        Doc(type) == RuleFile(buildAlertRules(c, type, prefix))
    IN  [ok     |-> LoadAlertContract(c) /\ ValidateAlertExpressions(c, prefix),
         writes |-> <<[path |-> <<"operator", profile, file>>, doc |-> Doc("prometheus")],
                      [path |-> <<"native", profile, file>>, doc |-> Doc("prometheus")]>>
                    \o IF Doc("loki").rules = << >> THEN << >>
                       ELSE <<[path |-> <<"loki", profile, file>>, doc |-> Doc("loki")]>>]

\* GenerateAlertRules: PrometheusRule, native file and Loki rules, one by one.
GenerateAlertRules(c, file, profile) ==
    LET prefix == prefixOf(profile, DefaultSourcePrefix(c))
        Doc(type) == RuleFile(buildAlertRules(c, type, prefix))
    IN  [ok     |-> /\ LoadAlertContract(c)
                    /\ ValidateAlertExpressions(c, prefix)
                    /\ validatePromQL(Doc("prometheus").rules),
         writes |-> <<[path |-> <<"operator", profile, file>>, doc |-> Doc("prometheus")],
                      [path |-> <<"native", profile, file>>, doc |-> Doc("prometheus")],
                      [path |-> <<"loki", profile, file>>, doc |-> Doc("loki")]>>]

GenerateGrafanaDashboard(c, file) ==
    [ok     |-> VerifyDashboardContract(c),
     writes |-> <<[path |-> <<"grafana", "default", file>>, doc |-> buildGrafanaDashboard(c)]>>]

\* GenerateMatrix fails before it writes when a supported prefix has no fixture.
GenerateMatrix(c, version, fixtures) ==
    [ok     |-> /\ LoadMetricContract(c)
                /\ DeclaredVersion(c, version)
                /\ RequiredProfiles(c) \subseteq DOMAIN fixtures,
     writes |-> <<[path |-> <<"docs", "default", "matrix">>,
                   doc  |-> renderMatrix(c, version, fixtures)]>>]

\* What a command does with its contract: the check it starts with, and its
\* writes.  A contract file that is missing fails the check.
Outcome(src, fixtures, cmd) ==
    CASE cmd.verb = "prometheus-rules" -> GeneratePrometheusRules(src, cmd.profile)
      [] cmd.verb = "compatibility-matrix" ->
             GenerateMatrix(src.metrics, src.makefile.version, fixtures)
      [] cmd.verb = "alert-rules" ->
             IF cmd.file \in DOMAIN src.alerts
             THEN GenerateAlertRules(src.alerts[cmd.file], cmd.file, cmd.profile)
             ELSE [ok |-> FALSE, writes |-> << >>]
      [] cmd.verb = "grafana-dashboard" ->
             IF cmd.file \in DOMAIN src.dashboards
             THEN GenerateGrafanaDashboard(src.dashboards[cmd.file], cmd.file)
             ELSE [ok |-> FALSE, writes |-> << >>]

\* Writing one file replaces it in place.
writeFile(tree, path, doc) ==
    [p \in DOMAIN tree \union {path} |-> IF p = path THEN doc ELSE tree[p]]
=============================================================================
