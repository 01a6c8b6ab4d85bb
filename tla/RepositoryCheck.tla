---------------------------- MODULE RepositoryCheck ----------------------------
(***************************************************************************)
(* `contracts verify-repository` (internal/contracts/repository.go): what  *)
(* it requires of the generated files of a working tree, given the         *)
(* contracts, the Makefile, the runbooks and the docs index.               *)
(*                                                                         *)
(* `tree` is a function from the paths of the generated files that exist   *)
(* to their contents.                                                      *)
(***************************************************************************)
EXTENDS Generators

CONSTANT AlertFiles   \* the names of the alert rule files the check lists

GridWidth == 24

Files == {RecordingFile} \union AlertFiles
Exists(tree, path) == path \in DOMAIN tree
Names(items, field) == {i[field] : i \in ToSet(items)} \ {""}

\* loadRuleFile: an empty file has no rules.
rulesOf(tree, path) ==
    IF Exists(tree, path) /\ tree[path].kind = "rules" THEN tree[path].rules ELSE << >>

loadRecordingRuleNames(tree, path) == Names(rulesOf(tree, path), "record")

\* Every recording rule an expression reads is among the names.
ReferencesIn(e, names) == \A n \in recordingRuleReferences(e) : n.id \in names

------------------------------------------------------------------------------
(* Generated dashboards. *)

dashboardPaths(tree) == {path \in DOMAIN tree : path[1] = "grafana"}

validateGeneratedGrid(grid) ==
    /\ grid.w > 0 /\ grid.h > 0
    /\ grid.x >= 0 /\ grid.y >= 0
    /\ grid.x + grid.w <= GridWidth

validateGeneratedDashboardVariableSchema(d) ==
    /\ DistinctBy(d.variables, "name")
    /\ \A v \in ToSet(d.variables) :
           /\ Complete(v, {"name", "type", "current"})
           /\ v.type = "custom" => v.options # << >>

generatedDashboardVariableDefaults(d) ==
    [name \in {v.name : v \in ToSet(d.variables)} |->
        (CHOOSE v \in ToSet(d.variables) : v.name = name).current]

\* A target's query is checked by the type of its datasource.
validateGeneratedTargetExpression(d, t, streams) ==
    \/ /\ t.datasource.type = "prometheus"
       /\ validatePromQLLabelSafety(
              InterpolateDashboardVariables(t.expr, generatedDashboardVariableDefaults(d)),
              streams.forbiddenLabels)
    \/ t.datasource.type = "loki" /\ ValidateLogExpression(streams, t.expr)

validateGeneratedDashboardPanel(d, p, streams) ==
    /\ p.id > 0 /\ Complete(p, {"title", "type"})
    /\ Complete(p.datasource, {"type", "uid"})
    /\ validateGeneratedGrid(p.grid)
    /\ p.targets # << >>
    /\ DistinctBy(p.targets, "refId")
    /\ \A t \in ToSet(p.targets) :
           /\ Complete(t, {"refId"}) /\ Complete(t.datasource, {"type", "uid"})
           /\ validateGeneratedTargetExpression(d, t, streams)

\* An empty file is no JSON.
validateGeneratedDashboardSchema(d, streams) ==
    /\ d.kind = "dashboard"
    /\ Complete(d, {"uid", "title", "refresh", "from", "to"})
    /\ validateGeneratedDashboardVariableSchema(d)
    /\ d.panels # << >>
    /\ DistinctBy(d.panels, "id")
    /\ \A p \in ToSet(d.panels) : validateGeneratedDashboardPanel(d, p, streams)

loadGeneratedDashboardFiles(tree, streams) ==
    \A path \in dashboardPaths(tree) :
        /\ validateGeneratedDashboardSchema(tree[path], streams)
        /\ path[3] = tree[path].uid

validateDashboardContractLabelSafety(c, forbidden) ==
    \A p \in ToSet(c.panels) :
        p.signal = "metrics" =>
            validatePromQLLabelSafety(ExpressionWithDefaultVariables(c, p.expression), forbidden)

loadDashboardContractFiles(src) ==
    /\ \A file \in DOMAIN src.dashboards :
           /\ VerifyDashboardContract(src.dashboards[file])
           /\ validateDashboardContractLabelSafety(src.dashboards[file], src.streams.forbiddenLabels)
    /\ \A f, g \in DOMAIN src.dashboards : src.dashboards[f].uid = src.dashboards[g].uid => f = g

verifyGeneratedDashboardHeader(c, d) ==
    \A field \in {"title", "refresh", "from", "to"} : d[field] = c[field]

verifyGeneratedDashboardVariables(c, d) ==
    /\ Len(d.variables) = Len(c.variables)
    /\ \A i \in DOMAIN c.variables :
           /\ d.variables[i].name = c.variables[i].name
           /\ d.variables[i].type = c.variables[i].type
           /\ d.variables[i].current = c.variables[i].default

verifyGeneratedDashboardTargetLabels(c, p, t, streams) ==
    IF p.signal = "metrics"
    THEN validatePromQLLabelSafety(ExpressionWithDefaultVariables(c, t.expr), streams.forbiddenLabels)
    ELSE ValidateLogExpression(streams, t.expr)

\* One panel against its contract, and the recording rules the contract names.
verifyGeneratedDashboardPanel(c, p, g, recorded, streams) ==
    /\ g.title = p.title /\ g.type = p.type /\ g.grid = p.grid
    /\ g.datasource = c.datasources[p.datasource]
    /\ g.targets # << >>
    /\ \A t \in ToSet(g.targets) :
           /\ t.expr = p.expression
           /\ t.datasource = c.datasources[p.datasource]
           /\ verifyGeneratedDashboardTargetLabels(c, p, t, streams)
    /\ p.signal = "metrics" => ReferencesIn(p.expression, recorded)

verifyGeneratedDashboard(c, d, recorded, streams) ==
    /\ verifyGeneratedDashboardHeader(c, d)
    /\ verifyGeneratedDashboardVariables(c, d)
    /\ Len(d.panels) = Len(c.panels)
    /\ \A i \in DOMAIN c.panels :
           verifyGeneratedDashboardPanel(c, c.panels[i], d.panels[i], recorded, streams)

\* Contracts and generated files are paired by uid, and neither stands alone.
verifyGeneratedDashboards(src, tree) ==
    LET generated(uid) == {path \in dashboardPaths(tree) : tree[path].uid = uid}
        contract(uid)  == {f \in DOMAIN src.dashboards : src.dashboards[f].uid = uid}
        recorded == loadRecordingRuleNames(tree, <<"native", "default", RecordingFile>>)
    IN  /\ loadDashboardContractFiles(src)
        /\ loadGeneratedDashboardFiles(tree, src.streams)
        /\ \A file \in DOMAIN src.dashboards :
               \E path \in generated(src.dashboards[file].uid) :
                   verifyGeneratedDashboard(src.dashboards[file], tree[path], recorded, src.streams)
        /\ \A path \in dashboardPaths(tree) : contract(tree[path].uid) # {}

------------------------------------------------------------------------------
(* Generated alerts. *)

validateAlertContractLabelSafety(c, a, streams) ==
    /\ DOMAIN a.labels \intersect ToSet(streams.forbiddenLabels) = {}
    /\ a.type = "prometheus" =>
           validatePromQLLabelSafety(RenderExpression(c, a.expression, DefaultSourcePrefix(c)),
                                     streams.forbiddenLabels)
    /\ a.type = "loki" => ValidateLogExpression(streams, a.expression)

\* Contracts of all files together name each alert of a type once.
registerExpectedGeneratedAlert(src) ==
    \A f, g \in DOMAIN src.alerts :
        \A a \in ToSet(src.alerts[f].alerts), b \in ToSet(src.alerts[g].alerts) :
            f # g /\ a.type = b.type => a.id # b.id

loadExpectedGeneratedAlerts(src, recorded) ==
    /\ \A file \in DOMAIN src.alerts :
           LET c == src.alerts[file] IN
           /\ LoadAlertContract(c)
           /\ ValidateAlertExpressions(c, DefaultSourcePrefix(c))
           /\ ValidateRunbooks(c, src.runbooks)
           /\ \A a \in ToSet(c.alerts) :
                  /\ a.type = "prometheus" => ReferencesIn(a.expression, recorded)
                  /\ validateAlertContractLabelSafety(c, a, src.streams)
    /\ registerExpectedGeneratedAlert(src)

ExpectedAlerts(src, type) ==
    UNION {{a.id : a \in {b \in ToSet(src.alerts[f].alerts) : b.type = type}} : f \in DOMAIN src.alerts}

\* The files the glob of a surface matches: those of the default profile.
rulePaths(tree, surface) == {path \in DOMAIN tree : path[1] = surface /\ path[2] = "default"}

\* Alert names of all files of a surface, none of them in two files.
loadGeneratedAlertNames(tree, surface) ==
    UNION {Names(rulesOf(tree, path), "alert") : path \in rulePaths(tree, surface)}

AlertNamedOnce(tree, surface) ==
    /\ \A path \in rulePaths(tree, surface) :
           LET alerts == SelectSeq(rulesOf(tree, path), LAMBDA r : r.alert # "")
           IN  DistinctBy(alerts, "alert")
    /\ \A p, q \in rulePaths(tree, surface) :
           p # q => Names(rulesOf(tree, p), "alert") \intersect Names(rulesOf(tree, q), "alert") = {}

validateGeneratedRuleLabelSafety(r, surface, streams) ==
    /\ DOMAIN r.labels \intersect ToSet(streams.forbiddenLabels) = {}
    /\ IF surface = "loki" THEN ValidateLogExpression(streams, r.expr)
       ELSE validatePromQLLabelSafety(r.expr, streams.forbiddenLabels)

verifyGeneratedRuleLabels(tree, surface, streams) ==
    \A path \in rulePaths(tree, surface) :
        \A r \in ToSet(rulesOf(tree, path)) : validateGeneratedRuleLabelSafety(r, surface, streams)

\* Mutant: alerts no contract has any more are overlooked.
compareGeneratedAlertFiles_MissingOnly(src, tree) ==
    /\ AlertNamedOnce(tree, "native") /\ AlertNamedOnce(tree, "loki")
    /\ ExpectedAlerts(src, "prometheus") \subseteq loadGeneratedAlertNames(tree, "native")
    /\ ExpectedAlerts(src, "loki") \subseteq loadGeneratedAlertNames(tree, "loki")

\* Generated alerts are compared with the contracts by name.
compareGeneratedAlertFiles(src, tree) ==
    /\ AlertNamedOnce(tree, "native") /\ AlertNamedOnce(tree, "loki")
    /\ loadGeneratedAlertNames(tree, "native") = ExpectedAlerts(src, "prometheus")
    /\ loadGeneratedAlertNames(tree, "loki") = ExpectedAlerts(src, "loki")
    /\ verifyGeneratedRuleLabels(tree, "native", src.streams)
    /\ verifyGeneratedRuleLabels(tree, "loki", src.streams)

verifyGeneratedAlerts(src, tree) ==
    /\ loadExpectedGeneratedAlerts(
           src, loadRecordingRuleNames(tree, <<"native", "default", RecordingFile>>))
    /\ compareGeneratedAlertFiles(src, tree)

------------------------------------------------------------------------------
(* The prefix profiles. *)

Surfaces == {"native", "operator", "loki"}
SurfaceFiles(surface) == IF surface = "loki" THEN AlertFiles ELSE Files

\* Mutant: the rules are compared instead of the bytes.
verifySameFile_Rules(tree, surface, file) ==
    rulesOf(tree, <<surface, "default", file>>) = rulesOf(tree, <<surface, "vault", file>>)

\* The default files are those of the vault prefix.
verifySameFile(tree, surface, file) ==
    /\ Exists(tree, <<surface, "default", file>>) /\ Exists(tree, <<surface, "vault", file>>)
    /\ tree[<<surface, "default", file>>] = tree[<<surface, "vault", file>>]

\* Each rule carries its profile's prefix and reads no metric of the other's.
verifyRuleFileSourcePrefix(tree, path, prefix, streams) ==
    /\ Exists(tree, path)
    /\ \A r \in ToSet(rulesOf(tree, path)) :
           /\ "source_prefix" \in DOMAIN r.labels /\ r.labels["source_prefix"] = prefix
           /\ validateGeneratedRuleLabelSafety(r, path[1], streams)
           /\ path[1] # "loki" =>
                  \A n \in r.expr.metrics : n.prefix \notin {"vault", "openbao"} \ {prefix}

verifyPrometheusRuleParity(tree, profile, file) ==
    LET native == <<"native", profile, file>>
        operator == <<"operator", profile, file>>
    IN  /\ Exists(tree, native) /\ Exists(tree, operator)
        /\ tree[native].kind = "rules" /\ tree[operator].kind = "rules"
        /\ tree[native].rules = tree[operator].rules

\* The alerts of a profile read only what its own recording rules record.
verifyAlertRecordingRuleReferences(tree, profile) ==
    \A file \in AlertFiles :
        \A r \in ToSet(rulesOf(tree, <<"native", profile, file>>)) :
            r.alert # "" =>
                ReferencesIn(r.expr,
                             loadRecordingRuleNames(tree, <<"native", profile, RecordingFile>>))

\* Mutant: only the files of the default profile are looked into.
verifyPrometheusRuleProfiles_DefaultOnly(tree) ==
    /\ \A file \in Files : verifyPrometheusRuleParity(tree, "default", file)
    /\ verifyAlertRecordingRuleReferences(tree, "default")

verifyPrometheusRuleProfiles(tree) ==
    \A profile \in ToSet(Profiles) :
        /\ \A file \in Files : verifyPrometheusRuleParity(tree, profile, file)
        /\ verifyAlertRecordingRuleReferences(tree, profile)

verifyPrefixVariants(tree, streams) ==
    /\ \A surface \in Surfaces : \A file \in SurfaceFiles(surface) :
           /\ verifySameFile(tree, surface, file)
           /\ \A profile \in ToSet(Profiles) :
                  verifyRuleFileSourcePrefix(
                      tree, <<surface, profile, file>>, prefixOf(profile, "vault"), streams)
    /\ verifyPrometheusRuleProfiles(tree)

------------------------------------------------------------------------------
(* Lists kept by hand, and the whole check. *)

verifyRunbookIndex(src) ==
    \A file \in DOMAIN src.alerts : \A a \in ToSet(src.alerts[file].alerts) :
        isExternalRunbook(a.runbook) \/ (a.runbook.dir = "docs/runbooks" /\ a.runbook \in src.index)

verifyMakefileLists(src, tree) ==
    /\ ToSet(src.makefile.contracts) = DOMAIN src.dashboards
    /\ ToSet(src.makefile.generated) = {path[3] : path \in dashboardPaths(tree)}

VerifyRepository(src, tree) ==
    /\ DOMAIN src.dashboards # {} /\ dashboardPaths(tree) # {} /\ DOMAIN src.alerts # {}
    /\ LoadStreamContract(src.streams)
    /\ verifyMakefileLists(src, tree)
    /\ Exists(tree, <<"native", "default", RecordingFile>>)
    /\ verifyGeneratedDashboards(src, tree)
    /\ verifyGeneratedAlerts(src, tree)
    /\ verifyPrefixVariants(tree, src.streams)
    /\ verifyRunbookIndex(src)
=============================================================================
