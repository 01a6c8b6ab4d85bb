------------------------------- MODULE Contracts -------------------------------
(***************************************************************************)
(* The contracts of internal/contracts: what the loaders of the four kinds *)
(* of YAML contract accept, how their expressions are rendered and parsed, *)
(* and which labels an expression may use.                                 *)
(*                                                                         *)
(* An expression is a record: the metrics it selects, the labels it        *)
(* matches and groups by, the dashboard variables it uses as a range, and  *)
(* whether the rest of its text parses.  A metric name is a record of its  *)
(* prefix and identifier; the prefix of a recording rule is "openbao:".    *)
(* The empty string stands for a field left out of the YAML.               *)
(***************************************************************************)
EXTENDS Integers, SequencesExt

CONSTANTS
    ValidPrefixes,   \* the source prefixes that match metricSourcePrefixPattern
    Durations,       \* the values of a dashboard variable that are a range
    Colors           \* the colours that match dashboardColorPattern

Recorded == "openbao:"
Placeholder == "${p}"

\* A contract field that lists names may not repeat one.
Distinct(items) == IsInjective(items)
DistinctBy(items, field) == Distinct([i \in DOMAIN items |-> items[i][field]])
Complete(item, fields) == \A f \in fields : item[f] # ""

------------------------------------------------------------------------------
(* Fields all contracts share. *)

Lifecycles == {"draft", "reference", "stable", "deprecated"}
Evidence == {"documented", "fixture-validated", "generated-validated",
             "profile-validated", "externally-validated"}

validateContractVersion(version) == version = "v0.1"

validateMaturity(maturity) ==
    /\ maturity.lifecycle \in Lifecycles
    /\ maturity.evidence # << >>
    /\ ToSet(maturity.evidence) \subseteq Evidence
    /\ Distinct(maturity.evidence)

validateMetricSourcePrefix(prefix) == prefix \in ValidPrefixes

validateHeader(c) == validateContractVersion(c.version) /\ validateMaturity(c.maturity)

------------------------------------------------------------------------------
(* Expressions. *)

ParseExpr(e) ==
    /\ e.parses
    /\ e.windows = {}
    /\ \A n \in e.metrics : n.prefix # Placeholder

\* The metrics of an expression after replacing the variable by a prefix.
RenderExpression(contract, e, prefix) ==
    LET variable == IF contract.variable = "" THEN Placeholder ELSE contract.variable
        Render(n) == IF n.prefix = variable THEN [n EXCEPT !.prefix = prefix] ELSE n
    IN  [e EXCEPT !.metrics = {Render(n) : n \in @}]

\* A range that names a variable whose value is a duration becomes that value.
InterpolateDashboardVariables(e, defaults) ==
    [e EXCEPT !.windows = {w \in @ : w \notin DOMAIN defaults \/ defaults[w] \notin Durations}]

recordingRuleReferences(e) == {n \in e.metrics : n.prefix = Recorded}

\* The labels the PromQL check looks at: matchers and the grouping of aggregations.
validatePromQLLabelSafety(e, forbidden) ==
    ParseExpr(e) /\ (e.matchers \union e.by) \intersect ToSet(forbidden) = {}

------------------------------------------------------------------------------
(* The log stream contract. *)

validateLabels(c) ==
    /\ "log_stream" \in ToSet(c.allowedLabels)
    /\ Distinct(c.allowedLabels) /\ "" \notin ToSet(c.allowedLabels)
    /\ Distinct(c.forbiddenLabels) /\ "" \notin ToSet(c.forbiddenLabels)
    /\ ToSet(c.allowedLabels) \intersect ToSet(c.forbiddenLabels) = {}

validateStreams(c) ==
    /\ DistinctBy(c.streams, "id")
    /\ \A s \in ToSet(c.streams) :
           Complete(s, {"id", "default", "source", "format", "access", "retention"})

LoadStreamContract(c) ==
    /\ validateHeader(c)
    /\ c.streams # << >> /\ c.allowedLabels # << >> /\ c.forbiddenLabels # << >>
    /\ validateStreams(c)
    /\ validateLabels(c)

\* Log expressions may use no label but the allowed ones.
ValidateLogExpression(c, e) ==
    \A label \in e.matchers \union e.by :
        /\ label \notin ToSet(c.forbiddenLabels)
        /\ label \in ToSet(c.allowedLabels)

------------------------------------------------------------------------------
(* Alert contracts. *)

DefaultSourcePrefix(c) == IF c.sourcePrefix # "" THEN c.sourcePrefix ELSE "vault"

validateAlertMetadataKeys(a) ==
    /\ DOMAIN a.labels \intersect {"severity", "signal", "source_prefix"} = {}
    /\ a.annotations \intersect {"summary", "description", "runbook_url"} = {}

validateAlertShape(a) ==
    /\ Complete(a, {"id", "type", "severity", "signal", "summary", "description"})
    /\ a.runbook.name # ""
    /\ validateAlertMetadataKeys(a)

LoadAlertContract(c) ==
    /\ validateHeader(c)
    /\ validateMetricSourcePrefix(DefaultSourcePrefix(c))
    /\ c.alerts # << >>
    /\ DistinctBy(c.alerts, "id")
    /\ \A a \in ToSet(c.alerts) : validateAlertShape(a)

\* PromQL must parse once rendered; LogQL must have a selector.
ValidateAlertExpressions(c, prefix) ==
    /\ validateMetricSourcePrefix(prefix)
    /\ \A a \in ToSet(c.alerts) :
           \/ a.type = "prometheus" /\ ParseExpr(RenderExpression(c, a.expression, prefix))
           \/ a.type = "loki" /\ a.expression.matchers # {}

isExternalRunbook(runbook) == runbook.dir = "https:"

\* runbooks is the set of Markdown files of the repository.
ValidateRunbooks(c, runbooks) ==
    \A a \in ToSet(c.alerts) : isExternalRunbook(a.runbook) \/ a.runbook \in runbooks

ValidateSeverity(c, severity) == \A a \in ToSet(c.alerts) : a.severity = severity

VerifyAlertContract(c, severity, runbooks) ==
    /\ LoadAlertContract(c)
    /\ ValidateAlertExpressions(c, DefaultSourcePrefix(c))
    /\ ValidateRunbooks(c, runbooks)
    /\ ValidateSeverity(c, severity)

------------------------------------------------------------------------------
(* Dashboard contracts. *)

validateDashboardVariable(v) ==
    /\ Complete(v, {"name", "type", "default"})
    /\ v.type \in {"custom", "textbox"}
    /\ v.type = "custom" => v.default \in ToSet(v.options)

validateDashboardPanelBasics(p) ==
    /\ Complete(p, {"id", "title", "type"})
    /\ p.type \in {"logs", "stat", "timeseries"}
    /\ p.grid.w > 0 /\ p.grid.h > 0

validateDashboardPanelSignal(p) ==
    /\ p.datasource \in {"metrics", "logs"}
    /\ p.signal \in {"metrics", "logs"} => p.datasource = p.signal

\* A threshold's value is a set of at most one number; the first has none.
validateDashboardThresholds(p) ==
    \A i \in DOMAIN p.thresholds :
        /\ p.thresholds[i].color \in Colors
        /\ (i = 1) = (p.thresholds[i].value = {})
        /\ i > 2 => \A u \in p.thresholds[i - 1].value, v \in p.thresholds[i].value : u < v

validateDashboardValueMappings(p) ==
    /\ DistinctBy(p.valueMappings, "value")
    /\ \A m \in ToSet(p.valueMappings) :
           Complete(m, {"value", "text"}) /\ m.color \in Colors \union {""}

\* Colours, mappings and the text for no data are for stat panels only.
validateDashboardPanelPresentation(p) ==
    IF p.type = "stat"
    THEN /\ p.colorMode \in {"", "none", "value", "background", "background_solid"}
         /\ validateDashboardValueMappings(p)
         /\ validateDashboardThresholds(p)
         /\ p.noData # " "
    ELSE /\ p.colorMode = "" /\ p.noData = ""
         /\ p.valueMappings = << >> /\ p.thresholds = << >>

validateDashboardMetadata(c) ==
    /\ Complete(c, {"uid", "title", "from", "to"})
    /\ \A d \in {"metrics", "logs"} : Complete(c.datasources[d], {"type", "uid"})
    /\ c.panels # << >>

LoadDashboardContract(c) ==
    /\ validateHeader(c)
    /\ validateDashboardMetadata(c)
    /\ DistinctBy(c.variables, "name")
    /\ \A v \in ToSet(c.variables) : validateDashboardVariable(v)
    /\ DistinctBy(c.panels, "id")
    /\ \A p \in ToSet(c.panels) :
           /\ validateDashboardPanelBasics(p)
           /\ validateDashboardPanelSignal(p)
           /\ validateDashboardPanelPresentation(p)

variableDefaults(variables) ==
    [name \in {v.name : v \in ToSet(variables)} |->
        (CHOOSE v \in ToSet(variables) : v.name = name).default]

ExpressionWithDefaultVariables(c, e) ==
    InterpolateDashboardVariables(e, variableDefaults(c.variables))

ValidateDashboardExpressions(c) ==
    \A p \in ToSet(c.panels) :
        \/ p.signal = "metrics" /\ ParseExpr(ExpressionWithDefaultVariables(c, p.expression))
        \/ p.signal = "logs" /\ p.expression.matchers # {}

VerifyDashboardContract(c) == LoadDashboardContract(c) /\ ValidateDashboardExpressions(c)

\* Every log query of the alerts and dashboards keeps to the stream contract.
VerifyStreamContract(c, alertContract, dashboardContracts) ==
    /\ LoadStreamContract(c)
    /\ LoadAlertContract(alertContract)
    /\ \A a \in ToSet(alertContract.alerts) :
           a.type = "loki" => ValidateLogExpression(c, a.expression)
    /\ \A d \in dashboardContracts :
           /\ LoadDashboardContract(d)
           /\ \A p \in ToSet(d.panels) : p.signal = "logs" => ValidateLogExpression(c, p.expression)

------------------------------------------------------------------------------
(* The metric contract and the fixtures it is verified against. *)

Expectations == {"required", "optional", "variable", "not-applicable"}

validateMetricPrefixes(c) ==
    /\ c.supported # << >> /\ Distinct(c.supported)
    /\ ToSet(c.supported) \subseteq ValidPrefixes
    /\ c.default \in ToSet(c.supported)

validateVerificationVersions(c) ==
    c.verificationVersions # << >> =>
        /\ c.openbaoVersion \in ToSet(c.verificationVersions)
        /\ Distinct(c.verificationVersions) /\ "" \notin ToSet(c.verificationVersions)

validateCoverageProfiles(c) ==
    \A id \in DOMAIN c.coverageProfiles :
        /\ c.coverageProfiles[id].class # ""
        /\ c.coverageProfiles[id].defaultExpectation \in Expectations

validateMetrics(c) ==
    /\ c.metrics # << >>
    /\ DistinctBy(c.metrics, "id")
    /\ \A m \in ToSet(c.metrics) :
           /\ m.id # "" /\ m.prometheusName.id # ""
           /\ DOMAIN m.coverage \subseteq DOMAIN c.coverageProfiles
           /\ \A id \in DOMAIN m.coverage : m.coverage[id] \in Expectations

LoadMetricContract(c) ==
    /\ validateHeader(c)
    /\ c.openbaoVersion # "" /\ c.recordingRulePrefix # ""
    /\ validateVerificationVersions(c)
    /\ validateMetricPrefixes(c)
    /\ validateCoverageProfiles(c)
    /\ validateMetrics(c)

ValidateSourcePrefix(c, prefix) ==
    validateMetricSourcePrefix(prefix) /\ prefix \in ToSet(c.supported)

\* A version may be asked for if the contract declares it.
DeclaredVersion(c, version) ==
    version \in {c.openbaoVersion} \union ToSet(c.verificationVersions)

FixtureName(m, prefix) ==
    LET name == IF m.fixtureName.id # "" THEN m.fixtureName ELSE m.prometheusName
    IN  [name EXCEPT !.prefix = IF @ = Placeholder THEN prefix ELSE @]

\* Mutant: only the fixture of the default prefix is looked into.
VerifyMetricContract_DefaultOnly(c, version, fixtures) ==
    /\ LoadMetricContract(c)
    /\ DeclaredVersion(c, version)
    /\ ToSet(c.requiredFixtures) \subseteq DOMAIN fixtures
    /\ \A m \in ToSet(c.metrics) :
           m.required => FixtureName(m, c.default) \in fixtures[c.default \o "-prefix"]

\* fixtures is a function from the profiles captured to the metrics in them.
VerifyMetricContract(c, version, fixtures) ==
    /\ LoadMetricContract(c)
    /\ DeclaredVersion(c, version)
    /\ ToSet(c.requiredFixtures) \subseteq DOMAIN fixtures
    /\ \A prefix \in ToSet(c.supported) :
           /\ prefix \o "-prefix" \in DOMAIN fixtures
           /\ \A m \in ToSet(c.metrics) :
                  m.required => FixtureName(m, prefix) \in fixtures[prefix \o "-prefix"]
=============================================================================
