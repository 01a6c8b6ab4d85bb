--------------------------- MODULE RepositoryProofs ----------------------------
(***************************************************************************)
(* Proofs about Repository for all contracts, fixtures, scans, edits,      *)
(* kills and pushes: a verdict is about the tree as it is, so the profiles *)
(* of an accepted tree stand alone and its files are of the contracts; CI  *)
(* merges only what is current; a run that ends forgets what came before.  *)
(***************************************************************************)
EXTENDS Repository, WellFoundedInduction, SequenceTheorems, TLAPS

------------------------------------------------------------------------------
(* A verdict or a CI result speaks of the very tree it was computed for. *)

VerdictInv == verdict = "accepted" => VerifyRepository(Contents[source], tree)

CIInv == ci.passed => Verified(head.source, head.tree)

\* Every commit CI passed had a scan that succeeded.
ScanInv == ci.passed => \A scan \in ci.scan : govulncheck(scan, Ignored).code = 0

IInv == VerdictInv /\ CIInv /\ ScanInv

------------------------------------------------------------------------------
LEMMA InitInv == Init => IInv
BY DEF Init, IInv, VerdictInv, CIInv, ScanInv, NoResult

LEMMA VerdictStep == VerdictInv /\ [Next]_vars => VerdictInv'
<1> SUFFICES ASSUME VerdictInv, [Next]_vars PROVE VerdictInv'
  OBVIOUS
<1> USE DEF VerdictInv
<1>1. CASE \E r \in Revisions : Edit(r)
  BY <1>1 DEF Edit
<1>2. CASE Capture
  BY <1>2 DEF Capture
<1>3. CASE StartGenerate
  BY <1>3 DEF StartGenerate
<1>4. CASE RunCommand
  BY <1>4 DEF RunCommand
<1>5. CASE WriteFile
  BY <1>5 DEF WriteFile
<1>6. CASE Interrupt
  BY <1>6 DEF Interrupt
<1>7. CASE \E path \in DOMAIN head.tree \intersect ByHand : RestoreFile(path)
  BY <1>7 DEF RestoreFile
<1>8. CASE \E path \in DOMAIN tree \intersect ByHand : RemoveFile(path)
  BY <1>8 DEF RemoveFile
<1>9. CASE Verify
  BY <1>9 DEF Verify
<1>10. CASE \E everything \in BOOLEAN : Push(everything)
  BY <1>10 DEF Push
<1>11. CASE UNCHANGED vars
  BY <1>11 DEF vars
<1> QED
  BY <1>1, <1>2, <1>3, <1>4, <1>5, <1>6, <1>7, <1>8, <1>9, <1>10, <1>11 DEF Next

LEMMA CIStep == CIInv /\ ScanInv /\ [Next]_vars => CIInv' /\ ScanInv'
<1> SUFFICES ASSUME CIInv, ScanInv, [Next]_vars PROVE CIInv' /\ ScanInv'
  OBVIOUS
<1>1. CASE UNCHANGED <<ci, head>>
  BY <1>1 DEF CIInv, ScanInv
<1>2. ASSUME NEW everything \in BOOLEAN, Push(everything) PROVE CIInv' /\ ScanInv'
  <2> DEFINE paths   == IF everything THEN DOMAIN tree ELSE DOMAIN tree \intersect DOMAIN head.tree
             tracked == [path \in paths |-> tree[path]]
  <2>1. head' = [source |-> source, tree |-> tracked]
    BY <1>2 DEF Push
  <2>2. CASE Verified(source, tracked)
    <3>1. PICK scan \in Scans :
              ci' = [passed |-> govulncheck(scan, Ignored).code = 0, scan |-> {scan}]
      BY <1>2, <2>2 DEF Push
    <3>2. ScanInv'
      BY <3>1 DEF ScanInv
    <3>3. head'.source = source /\ head'.tree = tracked
      BY <2>1
    <3>4. CIInv'
      BY <2>2, <3>3 DEF CIInv
    <3> QED
      BY <3>2, <3>4
  <2>3. CASE ~Verified(source, tracked)
    <3>1. ci' = NoResult
      BY <1>2, <2>3 DEF Push
    <3> QED
      BY <3>1 DEF CIInv, ScanInv, NoResult
  <2> QED
    BY <2>2, <2>3
<1>3. CASE \E r \in Revisions : Edit(r)
  BY <1>1, <1>3 DEF Edit
<1>4. CASE Capture
  BY <1>1, <1>4 DEF Capture
<1>5. CASE StartGenerate
  BY <1>1, <1>5 DEF StartGenerate
<1>6. CASE RunCommand
  BY <1>1, <1>6 DEF RunCommand
<1>7. CASE WriteFile
  BY <1>1, <1>7 DEF WriteFile
<1>8. CASE Interrupt
  BY <1>1, <1>8 DEF Interrupt
<1>9. CASE \E path \in DOMAIN head.tree \intersect ByHand : RestoreFile(path)
  BY <1>1, <1>9 DEF RestoreFile
<1>10. CASE \E path \in DOMAIN tree \intersect ByHand : RemoveFile(path)
  BY <1>1, <1>10 DEF RemoveFile
<1>11. CASE Verify
  BY <1>1, <1>11 DEF Verify
<1>12. CASE UNCHANGED vars
  BY <1>1, <1>12 DEF vars
<1> QED
  BY <1>2, <1>3, <1>4, <1>5, <1>6, <1>7, <1>8, <1>9, <1>10, <1>11, <1>12 DEF Next

\* The verdict on the working tree and the result of CI describe what they
\* were computed for, whatever happened since.
THEOREM VerdictsHold == Spec => []IInv
<1>1. IInv /\ [Next]_vars => IInv'
  BY VerdictStep, CIStep DEF IInv
<1> QED
  BY <1>1, InitInv, PTL DEF Spec

------------------------------------------------------------------------------
(* What an accepted tree promises. *)

LEMMA RecordedOnce ==
    ASSUME NEW t, NEW path, NEW n,
           n \in loadRecordingRuleNames(t, path)
    PROVE  \E q \in ToSet(rulesOf(t, path)) : q.record = n
BY DEF loadRecordingRuleNames, Names

LEMMA NativeFiles ==
    ASSUME NEW surface \in {"native", "operator"}
    PROVE  surface \in Surfaces /\ SurfaceFiles(surface) = Files /\ surface # "loki"
BY DEF Surfaces, SurfaceFiles

\* The operator's file of a profile holds the rules of the native one.
LEMMA SameRules ==
    ASSUME NEW t, NEW profile, NEW file, verifyPrometheusRuleParity(t, profile, file),
           NEW surface \in {"native", "operator"}
    PROVE  rulesOf(t, <<surface, profile, file>>) = rulesOf(t, <<"native", profile, file>>)
BY DEF verifyPrometheusRuleParity, rulesOf, Exists

\* The profiles of an accepted tree stand alone: in no file of the native or
\* the operator rules does a rule carry another prefix, read a raw metric of
\* another, or alert on a recording rule its own profile does not record.
THEOREM ProfilesStandAlone == Spec => []ProfilesSelfContained
<1>1. IInv => ProfilesSelfContained
  <2> SUFFICES ASSUME VerifyRepository(Contents[source], tree),
                      NEW surface \in {"native", "operator"}, NEW profile \in ToSet(Profiles)
               PROVE  LET Rules(file) == ToSet(rulesOf(tree, <<surface, profile, file>>))
                          prefix      == prefixOf(profile, "vault")
                      IN  /\ \A file \in Files : \A r \in Rules(file) :
                                /\ r.labels["source_prefix"] = prefix
                                /\ \A n \in r.expr.metrics :
                                       n.prefix \in {"vault", "openbao"} => n.prefix = prefix
                          /\ \A file \in AlertFiles : \A r \in Rules(file) :
                                r.alert # "" =>
                                    \A n \in recordingRuleReferences(r.expr) :
                                        \E q \in Rules(RecordingFile) : q.record = n.id
    BY DEF IInv, VerdictInv, ProfilesSelfContained
  <2> DEFINE streams == Contents[source].streams
             prefix  == prefixOf(profile, "vault")
  <2>1. verifyPrefixVariants(tree, streams)
    BY DEF VerifyRepository
  <2>2. ASSUME NEW file \in Files, NEW r \in ToSet(rulesOf(tree, <<surface, profile, file>>))
        PROVE  /\ r.labels["source_prefix"] = prefix
               /\ \A n \in r.expr.metrics :
                      n.prefix \in {"vault", "openbao"} => n.prefix = prefix
    <3>1. verifyRuleFileSourcePrefix(tree, <<surface, profile, file>>, prefix, streams)
      BY <2>1, <2>2, NativeFiles DEF verifyPrefixVariants
    <3>2. <<surface, profile, file>>[1] # "loki"
      BY NativeFiles
    <3> QED
      BY <2>2, <3>1, <3>2 DEF verifyRuleFileSourcePrefix
  <2>3. ASSUME NEW file \in AlertFiles,
               NEW r \in ToSet(rulesOf(tree, <<surface, profile, file>>)), r.alert # "",
               NEW n \in recordingRuleReferences(r.expr)
        PROVE  \E q \in ToSet(rulesOf(tree, <<surface, profile, RecordingFile>>)) : q.record = n.id
    <3>1. \A f \in Files : verifyPrometheusRuleParity(tree, profile, f)
      BY <2>1 DEF verifyPrefixVariants, verifyPrometheusRuleProfiles
    <3>2. \A f \in Files : rulesOf(tree, <<surface, profile, f>>) = rulesOf(tree, <<"native", profile, f>>)
      BY <3>1, SameRules
    <3>3. verifyAlertRecordingRuleReferences(tree, profile)
      BY <2>1 DEF verifyPrefixVariants, verifyPrometheusRuleProfiles
    <3>4. r \in ToSet(rulesOf(tree, <<"native", profile, file>>))
      BY <2>3, <3>2 DEF Files
    <3>5. n.id \in loadRecordingRuleNames(tree, <<"native", profile, RecordingFile>>)
      BY <2>3, <3>3, <3>4 DEF verifyAlertRecordingRuleReferences, ReferencesIn
    <3> QED
      BY <3>2, <3>5, RecordedOnce DEF Files
  <2> QED
    BY <2>2, <2>3
<1> QED
  BY <1>1, VerdictsHold, PTL

------------------------------------------------------------------------------
(* What a commit CI passed promises. *)

\* Every file that is in a commit CI passed and that `make generate` writes has
\* the content generate gives it from the contracts of that commit and fresh
\* fixtures, and every dashboard in the commit has a contract, whatever the
\* working tree it comes from went through.  Of generated files the commit lacks
\* nothing is said: git diff skips untracked files, so such a commit can pass.
THEOREM MergesAreCurrent == Spec => []MergedIsCurrent
<1>1. IInv => MergedIsCurrent
  <2> SUFFICES ASSUME Verified(head.source, head.tree) PROVE MergedIsCurrent
    BY DEF IInv, CIInv, MergedIsCurrent
  <2> DEFINE src   == Contents[head.source]
             built == Build[head.source][FreshFixtures].files
             files == [path \in DOMAIN built \union DOMAIN head.tree |->
                          IF path \in DOMAIN built THEN built[path] ELSE head.tree[path]]
  <2>1. gitDiff(head.tree, files) /\ VerifyRepository(src, files)
    BY DEF Verified, contractsVerify
  <2>2. ASSUME NEW path \in DOMAIN head.tree \intersect DOMAIN built
        PROVE  head.tree[path] = built[path]
    <3>1. files[path] = built[path]
      BY <2>2
    <3>2. files[path] = head.tree[path]
      BY <2>1, <2>2 DEF gitDiff
    <3> QED
      BY <3>1, <3>2
  <2>3. ASSUME NEW path \in dashboardPaths(head.tree)
        PROVE  \E f \in DOMAIN src.dashboards : src.dashboards[f].uid = path[3]
    <3>1. path \in dashboardPaths(files)
      BY <2>1, <2>3 DEF gitDiff, dashboardPaths
    <3>2. verifyGeneratedDashboards(src, files)
      BY <2>1 DEF VerifyRepository
    <3>3. path[3] = files[path].uid
      BY <3>1, <3>2 DEF verifyGeneratedDashboards, loadGeneratedDashboardFiles
    <3>4. {f \in DOMAIN src.dashboards : src.dashboards[f].uid = files[path].uid} # {}
      BY <3>1, <3>2 DEF verifyGeneratedDashboards
    <3> QED
      BY <3>3, <3>4
  <2> QED
    BY <2>2, <2>3 DEF MergedIsCurrent
<1> QED
  BY <1>1, VerdictsHold, PTL

LEMMA FailureCode ==
    ASSUME NEW r, ~runGovulncheck(r).ok
    PROVE  runGovulncheck(r).code # 0
<1>1. CASE ~r.started
  BY <1>1 DEF runGovulncheck
<1>2. CASE r.started
  <2>1. runGovulncheck(r).code = r.rc /\ runGovulncheck(r).ok = (r.rc \in {0, 3})
    BY <1>2 DEF runGovulncheck
  <2>2. ~(r.rc \in {0, 3})
    BY <2>1, Zenon
  <2> QED
    BY <2>1, <2>2
<1> QED
  BY <1>1, <1>2

\* Exit code 0 means that every run of the scanner that counts succeeded.
LEMMA CleanCode ==
    ASSUME NEW scan, govulncheck(scan, Ignored).code = 0
    PROVE  OnlyIgnored(scan)
<1>1. scan.readable /\ runGovulncheck(scan.json).ok /\ scan.json.parses
  <2>1. scan.readable
    BY DEF govulncheck
  <2>2. runGovulncheck(scan.json).ok
    BY <2>1, FailureCode DEF govulncheck
  <2> QED
    BY <2>1, <2>2 DEF govulncheck
<1>2. scan.json.started /\ scan.json.rc \in {0, 3}
  BY <1>1 DEF runGovulncheck
<1>3. ASSUME unignoredIDs(scan.json.found, Ignored) # {} PROVE FALSE
  <2>1. Traces(scan, unignoredIDs(scan.json.found, Ignored), 1, 2).code = 0
    BY <1>1, <1>3 DEF govulncheck, handleUnignoredFindings
  <2>2. CASE ~runGovulncheck(scan.traces).ok
    BY <2>1, <2>2, FailureCode DEF Traces
  <2>3. CASE runGovulncheck(scan.traces).ok
    BY <2>1, <2>3 DEF Traces
  <2> QED
    BY <2>2, <2>3
<1> QED
  BY <1>1, <1>2, <1>3 DEF OnlyIgnored, unignoredIDs

------------------------------------------------------------------------------
(***************************************************************************)
(* Which files a tree can hold, and what a run of `make generate` has      *)
(* written so far.                                                         *)
(***************************************************************************)
RuleSurface == {"native", "operator"}

KnownPath(path) ==
    \/ \E surface \in RuleSurface, profile \in ToSet(Profiles), file \in Files :
           path = <<surface, profile, file>>
    \/ \E profile \in ToSet(Profiles), file \in AlertFiles : path = <<"loki", profile, file>>
    \/ path = <<"docs", "default", "matrix">>
    \/ \E file : path = <<"grafana", "default", file>>

\* The recording rules of a file raise no alerts; panels and queries are lists.
FileOK(path, doc) ==
    /\ KnownPath(path)
    /\ doc.kind = "dashboard" =>
           IsList(doc.panels) /\ \A p \in ToSet(doc.panels) : IsList(p.targets)
    /\ path[1] \in RuleSurface /\ path[3] = RecordingFile /\ doc.kind = "rules" =>
           \A r \in ToSet(doc.rules) : r.alert = ""

TreeOK(t) == \A path \in DOMAIN t : FileOK(path, t[path])

IsCommand(cmd) ==
    \/ \E profile \in ToSet(Profiles) : cmd = Command("prometheus-rules", RecordingFile, profile)
    \/ cmd = Command("compatibility-matrix", "matrix", "default")
    \/ \E profile \in ToSet(Profiles), file \in AlertFiles : cmd = Command("alert-rules", file, profile)
    \/ \E file : cmd = Command("grafana-dashboard", file, "default")

\* What `make generate` writes to a path, whichever command does.
DocOf(src, captured, path) ==
    LET alerts == src.alerts[path[3]]
        Rules(type) == RuleFile(buildAlertRules(alerts, type, prefixOf(path[2], DefaultSourcePrefix(alerts))))
    IN  IF path[1] = "docs" THEN renderMatrix(src.metrics, src.makefile.version, captured)
        ELSE IF path[1] = "grafana" THEN buildGrafanaDashboard(src.dashboards[path[3]])
        ELSE IF path[1] = "loki" THEN Rules("loki")
        ELSE IF path[3] = RecordingFile
        THEN RuleFile(buildPrometheusRule(src.records, prefixOf(path[2], src.metrics.default)))
        ELSE Rules("prometheus")

\* The commands and writes ahead of a run, whatever revision they are of.
AheadInv ==
    \/ job = Idle
    \/ /\ job = [active |-> TRUE, commands |-> job.commands, pending |-> job.pending, mixed |-> job.mixed]
       /\ IsList(job.commands) /\ \A cmd \in ToSet(job.commands) : IsCommand(cmd)
       /\ IsList(job.pending)
       /\ \A w \in ToSet(job.pending) : w.doc # Empty /\ FileOK(w.path, w.doc)

Emits(src, captured, cmd) == ToSet(Outcome(src, captured, cmd).writes)
Holds(t, w) == w.path \in DOMAIN t /\ t[w.path] = w.doc

\* A run has written what the commands it has started write, but for the
\* writes ahead.
RunOK(src, captured, t, commands, pending) ==
    \E k \in Nat :
        /\ k + Len(commands) = Len(Commands(src))
        /\ \A j \in 1 .. Len(commands) : commands[j] = Commands(src)[k + j]
        /\ \A i \in 1 .. k :
               /\ Outcome(src, captured, Commands(src)[i]).ok
               /\ \A w \in Emits(src, captured, Commands(src)[i]) :
                      w \in ToSet(pending) \/ Holds(t, w)
        /\ \A w \in ToSet(pending) : w.doc = DocOf(src, captured, w.path)

\* Edits mix revisions; without them a run keeps to one.
RunInv ==
    job.active /\ ~job.mixed =>
        RunOK(Contents[source], fixtures, tree, job.commands, job.pending)

\* Truncated files come of mishaps, and so do restored ones.
MishapInv ==
    /\ used.mishaps = 0 => \A t \in {tree, head.tree} : \A path \in DOMAIN t : t[path] # Empty
    /\ used.mishaps = 1 => \A p, q \in DOMAIN tree : tree[p] = Empty /\ tree[q] = Empty => p = q

TypeInv ==
    /\ source \in Revisions /\ head.source \in Revisions
    /\ fixtures \in LocalFixtures \union {FreshFixtures}
    /\ used \in [edits : Nat, mishaps : Nat, pushes : Nat]
    /\ outcome # "none" => job = Idle
    /\ TreeOK(tree) /\ TreeOK(head.tree)

LifeInv == TypeInv /\ AheadInv /\ RunInv /\ MishapInv /\ RerunForgetsHistory

------------------------------------------------------------------------------
(* Commands and what they write. *)

LEMMA ThreeProfiles == ToSet(Profiles) = {"default", "vault", "openbao"}
BY DEF ToSet, Profiles

\* The elements of a concatenation are those of its parts.
LEMMA ConcatElements ==
    ASSUME NEW s, NEW t, IsList(s), IsList(t)
    PROVE  IsList(s \o t) /\ ToSet(s \o t) = ToSet(s) \union ToSet(t)
<1>1. s \in Seq(ToSet(s) \union ToSet(t)) /\ t \in Seq(ToSet(s) \union ToSet(t))
  BY DEF IsList
<1>2. s \o t \in Seq(ToSet(s) \union ToSet(t))
  BY <1>1
<1>3. ToSet(s \o t) = ToSet(s) \union ToSet(t)
  <2>1. ASSUME NEW i \in DOMAIN (s \o t) PROVE (s \o t)[i] \in ToSet(s) \union ToSet(t)
    BY <1>2, <2>1
  <2>2. ASSUME NEW i \in DOMAIN s PROVE s[i] \in ToSet(s \o t)
    <3>1. i \in DOMAIN (s \o t) /\ (s \o t)[i] = s[i]
      BY <1>1, <2>2
    <3> QED BY <3>1 DEF ToSet
  <2>3. ASSUME NEW i \in DOMAIN t PROVE t[i] \in ToSet(s \o t)
    <3>1. Len(s) + i \in DOMAIN (s \o t) /\ (s \o t)[Len(s) + i] = t[i]
      BY <1>1, <2>3
    <3> QED BY <3>1 DEF ToSet
  <2> QED BY <2>1, <2>2, <2>3 DEF ToSet
<1> QED BY <1>2, <1>3 DEF IsList

LEMMA FunctionElements ==
    ASSUME NEW n \in Nat, NEW f, f = [i \in 1 .. n |-> f[i]]
    PROVE  IsList(f) /\ Len(f) = n /\ ToSet(f) = {f[i] : i \in 1 .. n}
<1>1. ToSet(f) = {f[i] : i \in 1 .. n}
  BY DEF ToSet
<1>2. f \in [1 .. n -> ToSet(f)]
  BY <1>1
<1>3. f \in Seq(ToSet(f)) /\ Len(f) = n
  BY <1>2
<1> QED BY <1>1, <1>3 DEF IsList

\* `make generate` runs known commands, and one for every rule file and profile.
LEMMA CommandsKnown ==
    ASSUME NEW r \in Revisions
    PROVE  /\ IsList(Commands(Contents[r]))
           /\ \A cmd \in ToSet(Commands(Contents[r])) : IsCommand(cmd)
           /\ \A profile \in ToSet(Profiles) :
                 /\ Command("prometheus-rules", RecordingFile, profile) \in ToSet(Commands(Contents[r]))
                 /\ \A file \in AlertFiles :
                       Command("alert-rules", file, profile) \in ToSet(Commands(Contents[r]))
           /\ Command("compatibility-matrix", "matrix", "default") \in ToSet(Commands(Contents[r]))
<1> DEFINE makefile == Contents[r].makefile
           alerts   == makefile.alerts
           rules    == [i \in DOMAIN Profiles |-> Command("prometheus-rules", RecordingFile, Profiles[i])]
           matrix   == <<Command("compatibility-matrix", "matrix", "default")>>
           alerting == [i \in 1 .. 3 * Len(alerts) |->
                           Command("alert-rules", alerts[(i + 2) \div 3], Profiles[((i + 2) % 3) + 1])]
           boards   == [i \in DOMAIN makefile.dashboards |->
                           Command("grafana-dashboard", makefile.dashboards[i], "default")]
<1>1. /\ alerts \in Seq(AlertFiles) /\ ToSet(alerts) = AlertFiles
      /\ makefile.dashboards \in Seq(ToSet(makefile.dashboards))
  <2>1. /\ alerts \in Seq(AlertFiles) /\ ToSet(alerts) = AlertFiles
        /\ IsList(makefile.dashboards)
    BY RepositoryAssumption
  <2> QED BY <2>1 DEF IsList
<1>2. DOMAIN Profiles = 1 .. 3 /\ \A i \in 1 .. 3 : Profiles[i] \in ToSet(Profiles)
  BY DEF Profiles, ToSet
<1>3. IsList(rules) /\ ToSet(rules) = {Command("prometheus-rules", RecordingFile, p) : p \in ToSet(Profiles)}
  <2>1. IsList(rules) /\ ToSet(rules) = {rules[i] : i \in 1 .. 3}
    <3>1. rules = [i \in 1 .. 3 |-> rules[i]]
      BY <1>2
    <3> HIDE DEF rules
    <3> QED BY <3>1, FunctionElements
  <2>2. ToSet(Profiles) = {Profiles[i] : i \in 1 .. 3}
    BY <1>2 DEF ToSet
  <2> QED BY <1>2, <2>1, <2>2
<1>4. IsList(matrix) /\ ToSet(matrix) = {Command("compatibility-matrix", "matrix", "default")}
  BY DEF IsList, ToSet
<1>5. /\ IsList(alerting)
      /\ \A cmd \in ToSet(alerting) : \E p \in ToSet(Profiles), f \in AlertFiles :
            cmd = Command("alert-rules", f, p)
      /\ \A p \in ToSet(Profiles), f \in AlertFiles : Command("alert-rules", f, p) \in ToSet(alerting)
  <2>1. Len(alerts) \in Nat /\ 3 * Len(alerts) \in Nat
    BY <1>1
  <2>2. IsList(alerting) /\ ToSet(alerting) = {alerting[i] : i \in 1 .. 3 * Len(alerts)}
    <3>1. alerting = [i \in 1 .. 3 * Len(alerts) |-> alerting[i]]
      OBVIOUS
    <3> HIDE DEF alerting, alerts
    <3> QED BY <2>1, <3>1, FunctionElements
  <2>3. ASSUME NEW i \in 1 .. 3 * Len(alerts)
        PROVE  (i + 2) \div 3 \in 1 .. Len(alerts) /\ ((i + 2) % 3) + 1 \in 1 .. 3
    BY <2>1
  <2>4. ASSUME NEW i \in 1 .. 3 * Len(alerts)
        PROVE  \E p \in ToSet(Profiles), f \in AlertFiles : alerting[i] = Command("alert-rules", f, p)
    <3>1. alerts[(i + 2) \div 3] \in AlertFiles
      BY <1>1, <2>3
    <3>2. Profiles[((i + 2) % 3) + 1] \in ToSet(Profiles)
      BY <1>2, <2>3
    <3> QED BY <3>1, <3>2
  <2>5. ASSUME NEW p \in ToSet(Profiles), NEW f \in AlertFiles
        PROVE  Command("alert-rules", f, p) \in ToSet(alerting)
    <3>1. PICK j \in 1 .. Len(alerts) : f = alerts[j]
      BY <1>1 DEF ToSet
    <3>2. PICK k \in 1 .. 3 : p = Profiles[k]
      BY <1>2 DEF ToSet
    <3> DEFINE i == 3 * (j - 1) + k
    <3>3. i \in 1 .. 3 * Len(alerts) /\ (i + 2) \div 3 = j /\ ((i + 2) % 3) + 1 = k
      BY <2>1
    <3>4. alerting[i] = Command("alert-rules", f, p)
      BY <3>1, <3>2, <3>3
    <3> QED BY <2>2, <3>3, <3>4
  <2> QED BY <2>2, <2>4, <2>5
<1>6. /\ IsList(boards)
      /\ \A cmd \in ToSet(boards) : \E f : cmd = Command("grafana-dashboard", f, "default")
  <2>1. Len(makefile.dashboards) \in Nat /\ DOMAIN makefile.dashboards = 1 .. Len(makefile.dashboards)
    BY <1>1
  <2>2. IsList(boards) /\ ToSet(boards) = {boards[i] : i \in 1 .. Len(makefile.dashboards)}
    BY <2>1, FunctionElements
  <2> QED BY <2>1, <2>2
<1> HIDE DEF rules, matrix, alerting, boards
<1>7. IsList(rules \o matrix) /\ ToSet(rules \o matrix) = ToSet(rules) \union ToSet(matrix)
  BY <1>3, <1>4, ConcatElements
<1>8. /\ IsList(rules \o matrix \o alerting)
      /\ ToSet(rules \o matrix \o alerting) = ToSet(rules \o matrix) \union ToSet(alerting)
  BY <1>5, <1>7, ConcatElements
<1>9. /\ IsList(rules \o matrix \o alerting \o boards)
      /\ ToSet(rules \o matrix \o alerting \o boards)
            = ToSet(rules \o matrix \o alerting) \union ToSet(boards)
  BY <1>6, <1>8, ConcatElements
<1>10. Commands(Contents[r]) = rules \o matrix \o alerting \o boards
  BY DEF Commands, rules, matrix, alerting, boards
<1> QED
  BY <1>3, <1>4, <1>5, <1>6, <1>7, <1>8, <1>9, <1>10 DEF IsCommand

LEMMA RecordsAreNoAlerts ==
    ASSUME NEW records, NEW prefix
    PROVE  \A rule \in ToSet(buildPrometheusRule(records, prefix)) : rule.alert = ""
<1>1. /\ DOMAIN buildPrometheusRule(records, prefix) = DOMAIN records
      /\ \A i \in DOMAIN records : buildPrometheusRule(records, prefix)[i].alert = ""
  BY DEF buildPrometheusRule
<1> QED BY <1>1 DEF ToSet

\* Panels and the queries of a panel are lists.
LEMMA BoardsAreLists ==
    ASSUME NEW r \in Revisions, NEW file \in DOMAIN Contents[r].dashboards
    PROVE  LET d == buildGrafanaDashboard(Contents[r].dashboards[file])
           IN  IsList(d.panels) /\ \A p \in ToSet(d.panels) : IsList(p.targets)
<1> DEFINE c == Contents[r].dashboards[file]
           n == Len(c.panels)
           panels == [i \in 1 .. n |-> buildGrafanaPanel(c, c.panels[i], i)]
<1>1. n \in Nat /\ DOMAIN c.panels = 1 .. n
  <2>1. IsList(c.panels)
    BY RepositoryAssumption
  <2> QED BY <2>1 DEF IsList
<1>2. buildGrafanaDashboard(c).panels = panels
  BY <1>1 DEF buildGrafanaDashboard
<1>3. IsList(panels) /\ ToSet(panels) = {panels[i] : i \in 1 .. n}
  <2>1. panels = [i \in 1 .. n |-> panels[i]]
    OBVIOUS
  <2> HIDE DEF panels, n
  <2> QED BY <1>1, <2>1, FunctionElements
<1>4. ASSUME NEW p \in ToSet(panels) PROVE IsList(p.targets)
  <2>1. PICK i \in 1 .. n : p = buildGrafanaPanel(c, c.panels[i], i)
    BY <1>3
  <2>2. p.targets = <<GrafanaTarget(c.panels[i], datasourceRef(c, c.panels[i].datasource))>>
    BY <2>1 DEF buildGrafanaPanel
  <2> QED BY <2>2 DEF IsList, ToSet
<1> QED BY <1>2, <1>3, <1>4

\* What a command writes is known by the path, and is never an empty file.
LEMMA WritesKnown ==
    ASSUME NEW r \in Revisions, NEW src, src = Contents[r], NEW captured, NEW cmd, IsCommand(cmd)
    PROVE  /\ IsList(Outcome(src, captured, cmd).writes)
           /\ \A w \in ToSet(Outcome(src, captured, cmd).writes) :
                 /\ w.doc = DocOf(src, captured, w.path)
                 /\ w.doc # Empty /\ FileOK(w.path, w.doc)
<1> DEFINE writes == Outcome(src, captured, cmd).writes
<1>a. \A d : RuleFile(d) # Empty /\ RuleFile(d).kind = "rules" /\ RuleFile(d).rules = d
  BY DEF RuleFile, Empty
<1>b. "default" \in ToSet(Profiles) /\ RecordingFile \in Files /\ AlertFiles \subseteq Files
  BY ThreeProfiles DEF Files
<1>1. CASE \E profile \in ToSet(Profiles) : cmd = Command("prometheus-rules", RecordingFile, profile)
  <2>1. PICK profile \in ToSet(Profiles) : cmd = Command("prometheus-rules", RecordingFile, profile)
    BY <1>1
  <2> DEFINE rules == buildPrometheusRule(src.records, prefixOf(profile, src.metrics.default))
  <2>2. cmd.verb = "prometheus-rules" /\ cmd.profile = profile
    BY <2>1 DEF Command
  <2>3. writes = <<[path |-> <<"operator", profile, RecordingFile>>, doc |-> RuleFile(rules)],
                   [path |-> <<"native", profile, RecordingFile>>, doc |-> RuleFile(rules)]>>
    BY <2>2 DEF Outcome, GeneratePrometheusRules
  <2>4. \A rule \in ToSet(rules) : rule.alert = ""
    BY RecordsAreNoAlerts
  <2> HIDE DEF rules
  <2>5. IsList(writes)
    BY <2>3 DEF IsList, ToSet
  <2>6. ASSUME NEW surface \in RuleSurface
        PROVE  /\ RuleFile(rules) = DocOf(src, captured, <<surface, profile, RecordingFile>>)
               /\ FileOK(<<surface, profile, RecordingFile>>, RuleFile(rules))
    BY <1>a, <1>b, <2>4 DEF DocOf, FileOK, KnownPath, RuleSurface, rules
  <2>7. \A w \in ToSet(writes) : \E surface \in RuleSurface :
            w = [path |-> <<surface, profile, RecordingFile>>, doc |-> RuleFile(rules)]
    BY <2>3 DEF RuleSurface, ToSet
  <2> QED BY <1>a, <2>5, <2>6, <2>7
<1>2. CASE cmd = Command("compatibility-matrix", "matrix", "default")
  <2>1. cmd.verb = "compatibility-matrix"
    BY <1>2 DEF Command
  <2>2. writes = <<[path |-> <<"docs", "default", "matrix">>,
                    doc |-> renderMatrix(src.metrics, src.makefile.version, captured)]>>
    BY <2>1 DEF Outcome, GenerateMatrix
  <2>3. renderMatrix(src.metrics, src.makefile.version, captured).kind = "matrix"
    BY DEF renderMatrix
  <2>4. FileOK(<<"docs", "default", "matrix">>, renderMatrix(src.metrics, src.makefile.version, captured))
    BY <2>3 DEF FileOK, KnownPath, RuleSurface
  <2> QED BY <2>2, <2>3, <2>4 DEF IsList, ToSet, DocOf, Empty
<1>3. CASE \E profile \in ToSet(Profiles), file \in AlertFiles : cmd = Command("alert-rules", file, profile)
  <2>1. PICK profile \in ToSet(Profiles), file \in AlertFiles : cmd = Command("alert-rules", file, profile)
    BY <1>3
  <2>2. cmd.verb = "alert-rules" /\ cmd.profile = profile /\ cmd.file = file
    BY <2>1 DEF Command
  <2> DEFINE Doc(type) == RuleFile(buildAlertRules(src.alerts[file], type,
                              prefixOf(profile, DefaultSourcePrefix(src.alerts[file]))))
  <2>3. CASE file \notin DOMAIN src.alerts
    <3>1. writes = << >>
      BY <2>2, <2>3 DEF Outcome
    <3> QED BY <3>1 DEF ToSet, IsList
  <2>4. CASE file \in DOMAIN src.alerts
    <3>1. writes = <<[path |-> <<"operator", profile, file>>, doc |-> Doc("prometheus")],
                     [path |-> <<"native", profile, file>>, doc |-> Doc("prometheus")],
                     [path |-> <<"loki", profile, file>>, doc |-> Doc("loki")]>>
      BY <2>2, <2>4 DEF Outcome, GenerateAlertRules
    <3>2. IsList(writes)
      BY <3>1 DEF IsList, ToSet
    <3>3. file # RecordingFile
      BY RepositoryAssumption
    <3>4. ASSUME NEW surface \in RuleSurface
          PROVE  /\ Doc("prometheus") = DocOf(src, captured, <<surface, profile, file>>)
                 /\ FileOK(<<surface, profile, file>>, Doc("prometheus"))
      <4>1. Doc("prometheus").kind = "rules"
        BY <1>a
      <4>2. DocOf(src, captured, <<surface, profile, file>>) = Doc("prometheus")
        BY <3>3 DEF DocOf, RuleSurface
      <4>3. KnownPath(<<surface, profile, file>>)
        BY <1>b DEF KnownPath
      <4> HIDE DEF Doc
      <4> QED BY <3>3, <4>1, <4>2, <4>3 DEF FileOK
    <3>5. /\ Doc("loki") = DocOf(src, captured, <<"loki", profile, file>>)
          /\ FileOK(<<"loki", profile, file>>, Doc("loki"))
      <4>1. Doc("loki").kind = "rules"
        BY <1>a
      <4>2. DocOf(src, captured, <<"loki", profile, file>>) = Doc("loki")
        BY DEF DocOf
      <4>3. KnownPath(<<"loki", profile, file>>)
        BY DEF KnownPath
      <4> HIDE DEF Doc
      <4> QED BY <4>1, <4>2, <4>3 DEF FileOK, RuleSurface
    <3> HIDE DEF Doc
    <3>6. Doc("prometheus") # Empty /\ Doc("loki") # Empty
      BY <1>a DEF Doc
    <3> QED BY <3>1, <3>2, <3>4, <3>5, <3>6 DEF RuleSurface, ToSet
  <2> QED BY <2>3, <2>4
<1>4. CASE \E file : cmd = Command("grafana-dashboard", file, "default")
  <2>1. PICK file : cmd = Command("grafana-dashboard", file, "default")
    BY <1>4
  <2>2. cmd.verb = "grafana-dashboard" /\ cmd.file = file
    BY <2>1 DEF Command
  <2>3. CASE file \notin DOMAIN src.dashboards
    <3>1. writes = << >>
      BY <2>2, <2>3 DEF Outcome
    <3> QED BY <3>1 DEF ToSet, IsList
  <2>4. CASE file \in DOMAIN src.dashboards
    <3>1. writes = <<[path |-> <<"grafana", "default", file>>,
                      doc |-> buildGrafanaDashboard(src.dashboards[file])]>>
      BY <2>2, <2>4 DEF Outcome, GenerateGrafanaDashboard
    <3>2. buildGrafanaDashboard(src.dashboards[file]).kind = "dashboard"
      BY DEF buildGrafanaDashboard
    <3>3. FileOK(<<"grafana", "default", file>>, buildGrafanaDashboard(src.dashboards[file]))
      BY <2>4, BoardsAreLists DEF FileOK, KnownPath, RuleSurface, buildGrafanaDashboard
    <3> QED BY <3>1, <3>2, <3>3 DEF IsList, ToSet, DocOf, Empty
  <2> QED BY <2>3, <2>4
<1> QED BY <1>1, <1>2, <1>3, <1>4 DEF IsCommand

------------------------------------------------------------------------------
(* A run of `make generate` from nothing. *)

LEMMA LessIsWellFounded ==
    \E R : IsWellFoundedOn(R, Nat) /\ \A i, j \in Nat : i < j => <<i, j>> \in R
<1> DEFINE R == OpToRel(<, Nat)
<1>1. IsWellFoundedOn(R, Nat)
  BY NatLessThanWellFounded
<1>2. R = {ss \in Nat \X Nat : ss[1] < ss[2]}
  BY DEF OpToRel
<1>3. \A i, j \in Nat : i < j => <<i, j>> \in R
  BY <1>2
<1> HIDE DEF R
<1> QED BY <1>1, <1>3

LEMMA Greatest ==
    ASSUME NEW n \in Nat, NEW S, S \subseteq 1 .. n, S # {}
    PROVE  \E m \in S : \A k \in S : k <= m
<1>1. PICK R : IsWellFoundedOn(R, Nat) /\ \A i, j \in Nat : i < j => <<i, j>> \in R
  BY LessIsWellFounded
<1> DEFINE T == {n - s : s \in S}
<1>2. T \subseteq Nat /\ T # {}
  <2>1. \A s \in S : s \in Int /\ s <= n
    OBVIOUS
  <2>2. \A s \in S : n - s \in Nat
    BY <2>1
  <2> QED BY <2>2
<1>3. \E x \in T : \A y \in T : ~(<<y, x>> \in R)
  <2>1. IsWellFoundedOn(R, Nat)
    BY <1>1
  <2> HIDE DEF T
  <2> QED BY <1>2, <2>1, WFMin, Zenon
<1>4. PICK s \in S : \A y \in T : <<y, n - s>> \notin R
  BY <1>3
<1>5. ASSUME NEW k \in S PROVE k <= s
  <2>1. <<n - k, n - s>> \notin R
    BY <1>4
  <2> QED BY <1>1, <2>1
<1> QED BY <1>5

Succeeds(src, captured) == \A cmd \in ToSet(Commands(src)) : Outcome(src, captured, cmd).ok

OnlyEmitted(src, captured, files) ==
    \A path \in DOMAIN files : \E cmd \in ToSet(Commands(src)) : \E w \in Emits(src, captured, cmd) :
        w.path = path /\ files[path] = w.doc
AllEmitted(src, captured, files) ==
    \A cmd \in ToSet(Commands(src)) : \A w \in Emits(src, captured, cmd) : w.path \in DOMAIN files

\* The files of a run from nothing are what its commands write.
LEMMA GeneratedKnown ==
    ASSUME NEW r \in Revisions, NEW captured
    PROVE  /\ OnlyEmitted(Contents[r], captured, Generated(Contents[r], captured).files)
           /\ Generated(Contents[r], captured).ok => Succeeds(Contents[r], captured)
           /\ Succeeds(Contents[r], captured) =>
                 AllEmitted(Contents[r], captured, Generated(Contents[r], captured).files)
<1> DEFINE src      == Contents[r]
           commands == Commands(src)
           results  == {[at |-> i, result |-> Outcome(src, captured, commands[i])] :
                            i \in DOMAIN commands}
           ran      == {s \in results : \A t \in results : t.at <= s.at => t.result.ok}
           written  == UNION {{[at |-> s.at, path |-> w.path, doc |-> w.doc] :
                                  w \in ToSet(s.result.writes)} : s \in ran}
           LastWrite(path) == CHOOSE w \in written :
                                  /\ w.path = path
                                  /\ \A v \in written : v.path = path => v.at <= w.at
           g        == Generated(src, captured)
<1>1. /\ g.ok = (ran = results)
      /\ g.files = [path \in {w.path : w \in written} |-> LastWrite(path).doc]
  BY DEF Generated
<1>2. PICK n \in Nat : DOMAIN commands = 1 .. n
  BY CommandsKnown DEF IsList
<1>3. \A s \in results : s.at \in 1 .. n
  BY <1>2
<1>4. \A w \in written : w.at \in 1 .. n
  BY <1>3
<1>5. ASSUME NEW w \in written
      PROVE  \E cmd \in ToSet(commands) : \E v \in ToSet(Outcome(src, captured, cmd).writes) :
                 v.path = w.path /\ v.doc = w.doc
  <2>1. PICK i \in DOMAIN commands : \E v \in ToSet(Outcome(src, captured, commands[i]).writes) :
            v.path = w.path /\ v.doc = w.doc
    OBVIOUS
  <2> QED BY <2>1 DEF ToSet
<1>6. ASSUME NEW path \in {w.path : w \in written}
      PROVE  LastWrite(path) \in written /\ LastWrite(path).path = path
  <2> DEFINE S == {w.at : w \in {v \in written : v.path = path}}
  <2>1. S \subseteq 1 .. n /\ S # {}
    <3> HIDE DEF written
    <3> QED BY <1>4
  <2>2. PICK m \in S : \A k \in S : k <= m
    <3> HIDE DEF S
    <3> QED BY <2>1, Greatest
  <2>3. \E w \in written : w.path = path /\ \A v \in written : v.path = path => v.at <= w.at
    <3> HIDE DEF written
    <3> QED BY <2>2
  <2> HIDE DEF written
  <2> QED BY <2>3
<1>7. ASSUME NEW path \in DOMAIN g.files
      PROVE  \E cmd \in ToSet(commands) : \E w \in ToSet(Outcome(src, captured, cmd).writes) :
                 w.path = path /\ g.files[path] = w.doc
  <2> HIDE DEF LastWrite, written, g
  <2>1. path \in {w.path : w \in written} /\ g.files[path] = LastWrite(path).doc
    BY <1>1, <1>7
  <2> QED BY <1>5, <1>6, <2>1
<1>8. ASSUME g.ok, NEW cmd \in ToSet(commands) PROVE Outcome(src, captured, cmd).ok
  <2>1. PICK i \in DOMAIN commands : cmd = commands[i]
    BY DEF ToSet
  <2> DEFINE s == [at |-> i, result |-> Outcome(src, captured, commands[i])]
  <2>2. s \in results
    OBVIOUS
  <2>3. s \in ran
    BY <1>1, <1>8, <2>2
  <2>4. s.at <= s.at
    BY <1>2
  <2> QED BY <2>1, <2>2, <2>3, <2>4
<1>9. ASSUME \A cmd \in ToSet(commands) : Outcome(src, captured, cmd).ok,
             NEW cmd \in ToSet(commands), NEW w \in ToSet(Outcome(src, captured, cmd).writes)
      PROVE  w.path \in DOMAIN g.files
  <2>1. PICK i \in DOMAIN commands : cmd = commands[i]
    BY DEF ToSet
  <2> DEFINE s == [at |-> i, result |-> Outcome(src, captured, commands[i])]
  <2>2. \A t \in results : t.result.ok
    BY <1>9 DEF ToSet
  <2>3. s \in ran
    BY <2>2
  <2>4. [at |-> i, path |-> w.path, doc |-> w.doc] \in written
    BY <2>1, <2>3
  <2> HIDE DEF written, g
  <2> QED BY <1>1, <2>4
<1> HIDE DEF g, results, ran, written, LastWrite
<1> QED BY <1>7, <1>8, <1>9 DEF g, OnlyEmitted, Succeeds, AllEmitted, Emits

\* So such a run holds known files, none of them empty.
LEMMA BuildKnown ==
    ASSUME NEW r \in Revisions, NEW captured \in LocalFixtures \union {FreshFixtures}
    PROVE  LET built == Build[r][captured].files
           IN  /\ TreeOK(built)
               /\ \A path \in DOMAIN built :
                     built[path] # Empty /\ built[path] = DocOf(Contents[r], captured, path)
<1>1. Build[r][captured] = Generated(Contents[r], captured)
  BY DEF Build
<1> DEFINE built == Build[r][captured].files
<1>2. ASSUME NEW path \in DOMAIN built
      PROVE  /\ FileOK(path, built[path])
             /\ built[path] # Empty /\ built[path] = DocOf(Contents[r], captured, path)
  <2>0. PICK cmd \in ToSet(Commands(Contents[r])) :
            \E w \in ToSet(Outcome(Contents[r], captured, cmd).writes) :
                w.path = path /\ built[path] = w.doc
    <3>1. built = Generated(Contents[r], captured).files
      BY <1>1
    <3> HIDE DEF built
    <3>2. path \in DOMAIN Generated(Contents[r], captured).files
      BY <1>2, <3>1
    <3>3. OnlyEmitted(Contents[r], captured, Generated(Contents[r], captured).files)
      BY GeneratedKnown
    <3> QED BY <3>1, <3>2, <3>3 DEF OnlyEmitted, Emits
  <2>1. PICK w \in ToSet(Outcome(Contents[r], captured, cmd).writes) :
            w.path = path /\ built[path] = w.doc
    BY <2>0
  <2>2. IsCommand(cmd)
    BY CommandsKnown
  <2>3. w.doc = DocOf(Contents[r], captured, w.path) /\ w.doc # Empty /\ FileOK(w.path, w.doc)
    BY <2>2, WritesKnown
  <2> QED BY <2>1, <2>3
<1> QED BY <1>2 DEF TreeOK

------------------------------------------------------------------------------
(* Steps. *)

LEMMA TailElements ==
    ASSUME NEW s, IsList(s), s # << >>
    PROVE  /\ IsList(Tail(s)) /\ Len(Tail(s)) = Len(s) - 1
           /\ Head(s) \in ToSet(s) /\ ToSet(s) = {Head(s)} \union ToSet(Tail(s))
<1>1. s \in Seq(ToSet(s)) /\ Len(s) \in Nat \ {0} /\ DOMAIN s = 1 .. Len(s)
  BY DEF IsList
<1>2. Tail(s) = [i \in 1 .. Len(s) - 1 |-> s[i + 1]]
  <2> DEFINE S == ToSet(s)
  <2>0. s \in Seq(S)
    BY <1>1
  <2> HIDE DEF S
  <2>1. Tail(s) \in Seq(S) /\ Len(Tail(s)) = Len(s) - 1
    BY <2>0, HeadTailProperties
  <2>2. \A i \in 1 .. Len(s) - 1 : Tail(s)[i] = s[i + 1]
    BY <2>0, <2>1, HeadTailProperties
  <2>3. Tail(s) = [i \in 1 .. Len(Tail(s)) |-> Tail(s)[i]]
    <3> DEFINE t == Tail(s)
    <3>1. t \in Seq(S)
      BY <2>1
    <3> HIDE DEF t
    <3>2. t = [i \in 1 .. Len(t) |-> t[i]]
      BY <3>1
    <3> QED BY <3>2 DEF t
  <2> QED BY <2>1, <2>2, <2>3
<1>3. IsList(Tail(s)) /\ Len(Tail(s)) = Len(s) - 1 /\ ToSet(Tail(s)) = {s[i + 1] : i \in 1 .. Len(s) - 1}
  <2> DEFINE t == Tail(s)
  <2>1. t = [i \in 1 .. Len(s) - 1 |-> t[i]] /\ \A i \in 1 .. Len(s) - 1 : t[i] = s[i + 1]
    BY <1>2
  <2>2. Len(s) - 1 \in Nat
    BY <1>1
  <2>3. IsList(t) /\ Len(t) = Len(s) - 1 /\ ToSet(t) = {t[i] : i \in 1 .. Len(s) - 1}
    <3> HIDE DEF t
    <3> QED BY <2>1, <2>2, FunctionElements
  <2> QED BY <2>1, <2>3
<1>4. Head(s) = s[1] /\ Head(s) \in ToSet(s)
  BY <1>1 DEF ToSet
<1>5. ToSet(s) = {Head(s)} \union ToSet(Tail(s))
  <2>1. \A i \in DOMAIN s : i = 1 \/ (i - 1 \in 1 .. Len(s) - 1 /\ s[(i - 1) + 1] = s[i])
    BY <1>1
  <2>2. ToSet(s) \subseteq {Head(s)} \union ToSet(Tail(s))
    BY <1>3, <1>4, <2>1 DEF ToSet
  <2>3. ToSet(Tail(s)) \subseteq ToSet(s)
    BY <1>1, <1>3 DEF ToSet
  <2> QED BY <1>4, <2>2, <2>3
<1> QED BY <1>3, <1>4, <1>5

LEMMA WriteKeeps ==
    ASSUME NEW t, NEW path, NEW doc, TreeOK(t), FileOK(path, doc)
    PROVE  TreeOK(writeFile(t, path, doc))
BY DEF TreeOK, writeFile

LEMMA TruncatedOK ==
    ASSUME NEW path, NEW doc, FileOK(path, doc)
    PROVE  FileOK(path, Empty)
BY DEF FileOK, Empty

LEMMA PendingHead ==
    ASSUME AheadInv, job.active, job.pending # << >>
    PROVE  /\ Head(job.pending) \in ToSet(job.pending)
           /\ FileOK(Head(job.pending).path, Head(job.pending).doc) /\ Head(job.pending).doc # Empty
<1>1. IsList(job.pending) /\ \A w \in ToSet(job.pending) : w.doc # Empty /\ FileOK(w.path, w.doc)
  BY DEF AheadInv, Idle
<1> QED BY <1>1, TailElements

LEMMA InitType == Init => TypeInv
<1> SUFFICES ASSUME Init PROVE TypeInv
  OBVIOUS
<1>1. TreeOK(Build[Base][FreshFixtures].files)
  BY BuildKnown, RepositoryAssumption
<1>2. head.source = Base /\ head.tree = tree
  BY DEF Init
<1> QED BY <1>1, <1>2, RepositoryAssumption DEF Init, TypeInv

LEMMA TypeStep == TypeInv /\ AheadInv /\ [Next]_vars => TypeInv'
<1> SUFFICES ASSUME TypeInv, AheadInv, [Next]_vars PROVE TypeInv'
  OBVIOUS
<1> USE DEF TypeInv
<1>1. ASSUME NEW r \in Revisions, Edit(r) PROVE TypeInv'
  BY <1>1 DEF Edit, Count
<1>2. CASE Capture
  BY <1>2 DEF Capture
<1>3. CASE StartGenerate
  BY <1>3 DEF StartGenerate
<1>4. CASE RunCommand
  <2>1. job.active /\ outcome = "none"
    BY <1>4 DEF RunCommand, Idle
  <2> QED BY <1>4, <2>1 DEF RunCommand
<1>5. CASE WriteFile
  <2>1. job.active /\ job.pending # << >> /\ outcome = "none"
    BY <1>5 DEF WriteFile, Idle
  <2>2. TreeOK(tree')
    BY <1>5, <2>1, PendingHead, WriteKeeps DEF WriteFile
  <2> QED BY <1>5, <2>1, <2>2 DEF WriteFile
<1>6. CASE Interrupt
  <2>1. TreeOK(tree')
    BY <1>6, PendingHead, TruncatedOK, WriteKeeps DEF Interrupt
  <2> QED BY <1>6, <2>1 DEF Interrupt, Count
<1>7. ASSUME NEW path \in DOMAIN head.tree, RestoreFile(path) PROVE TypeInv'
  <2>1. TreeOK(tree')
    BY <1>7, WriteKeeps DEF RestoreFile, TreeOK
  <2> QED BY <1>7, <2>1 DEF RestoreFile, Count
<1>8. ASSUME NEW path \in DOMAIN tree, RemoveFile(path) PROVE TypeInv'
  <2>1. TreeOK(tree')
    BY <1>8 DEF RemoveFile, TreeOK
  <2> QED BY <1>8, <2>1 DEF RemoveFile, Count
<1>9. CASE Verify
  BY <1>9 DEF Verify
<1>10. ASSUME NEW everything \in BOOLEAN, Push(everything) PROVE TypeInv'
  <2>1. PICK paths \in SUBSET DOMAIN tree :
            head' = [source |-> source, tree |-> [path \in paths |-> tree[path]]]
    BY <1>10 DEF Push
  <2>2. head'.source = source /\ head'.tree = [path \in paths |-> tree[path]]
    BY <2>1
  <2>3. TreeOK(head'.tree)
    BY <2>2 DEF TreeOK
  <2> QED BY <1>10, <2>2, <2>3 DEF Push, Count
<1>11. CASE UNCHANGED vars
  BY <1>11 DEF vars
<1> QED
  BY <1>1, <1>2, <1>3, <1>4, <1>5, <1>6, <1>7, <1>8, <1>9, <1>10, <1>11 DEF Next

LEMMA AheadStep == TypeInv /\ AheadInv /\ [Next]_vars => AheadInv'
<1> SUFFICES ASSUME TypeInv, AheadInv, [Next]_vars PROVE AheadInv'
  OBVIOUS
<1> USE DEF AheadInv
<1>1. ASSUME NEW r \in Revisions, Edit(r) PROVE AheadInv'
  <2>1. CASE job = Idle
    BY <1>1, <2>1 DEF Edit, Idle
  <2>2. CASE job # Idle
    <3>1. job.active /\ job' = [job EXCEPT !.mixed = TRUE]
      BY <1>1, <2>2 DEF Edit
    <3>2. job' = [active |-> TRUE, commands |-> job.commands, pending |-> job.pending, mixed |-> TRUE]
      BY <2>2, <3>1
    <3>3. job'.commands = job.commands /\ job'.pending = job.pending /\ job'.mixed = TRUE
      BY <3>2
    <3> QED BY <2>2, <3>2, <3>3
  <2> QED BY <2>1, <2>2
<1>2. CASE StartGenerate
  <2>1. job' = [active |-> TRUE, commands |-> Commands(Contents[source]), pending |-> << >>, mixed |-> FALSE]
    BY <1>2 DEF StartGenerate
  <2>2. /\ job'.commands = Commands(Contents[source]) /\ job'.pending = << >> /\ job'.mixed = FALSE
        /\ ToSet(<< >>) = {} /\ IsList(<< >>)
    BY <2>1 DEF ToSet, IsList
  <2> QED BY <2>1, <2>2, CommandsKnown DEF TypeInv
<1>3. CASE RunCommand
  <2>1. CASE job' = Idle
    BY <2>1
  <2>2. CASE job' # Idle
    <3>1. /\ job.active /\ job.commands # << >>
          /\ job' = [job EXCEPT !.commands = Tail(@),
                                !.pending = Outcome(Contents[source], fixtures, Head(job.commands)).writes]
      BY <1>3, <2>2 DEF RunCommand
    <3>2. job = [active |-> TRUE, commands |-> job.commands, pending |-> job.pending, mixed |-> job.mixed]
      BY <3>1 DEF Idle
    <3>3. job' = [active |-> TRUE, commands |-> Tail(job.commands),
                  pending |-> Outcome(Contents[source], fixtures, Head(job.commands)).writes,
                  mixed |-> job.mixed]
      BY <3>1, <3>2
    <3>4. /\ job'.commands = Tail(job.commands) /\ job'.mixed = job.mixed
          /\ job'.pending = Outcome(Contents[source], fixtures, Head(job.commands)).writes
      BY <3>3
    <3>5. /\ IsList(Tail(job.commands)) /\ IsCommand(Head(job.commands))
          /\ \A cmd \in ToSet(Tail(job.commands)) : IsCommand(cmd)
      <4>1. IsList(job.commands) /\ \A cmd \in ToSet(job.commands) : IsCommand(cmd)
        BY <3>1 DEF Idle
      <4> QED BY <3>1, <4>1, TailElements
    <3>6. /\ IsList(job'.pending)
          /\ \A w \in ToSet(job'.pending) : w.doc # Empty /\ FileOK(w.path, w.doc)
      <4>1. source \in Revisions
        BY DEF TypeInv
      <4> DEFINE cmd == Head(job.commands)
      <4> HIDE DEF cmd
      <4>2. IsCommand(cmd)
        BY <3>5 DEF cmd
      <4>3. job'.pending = Outcome(Contents[source], fixtures, cmd).writes
        BY <3>4 DEF cmd
      <4>4. /\ IsList(Outcome(Contents[source], fixtures, cmd).writes)
            /\ \A w \in ToSet(Outcome(Contents[source], fixtures, cmd).writes) :
                   w.doc # Empty /\ FileOK(w.path, w.doc)
        BY <4>1, <4>2, WritesKnown
      <4> QED BY <4>3, <4>4
    <3> QED BY <3>3, <3>4, <3>5, <3>6
  <2> QED BY <2>1, <2>2
<1>4. CASE WriteFile
  <2>1. CASE job' = Idle
    BY <2>1
  <2>2. CASE job' # Idle
    <3>1. job.active /\ job.pending # << >> /\ job' = [job EXCEPT !.pending = Tail(job.pending)]
      BY <1>4, <2>2 DEF WriteFile
    <3>2. job = [active |-> TRUE, commands |-> job.commands, pending |-> job.pending, mixed |-> job.mixed]
      BY <3>1 DEF Idle
    <3>3. job' = [active |-> TRUE, commands |-> job.commands, pending |-> Tail(job.pending), mixed |-> job.mixed]
      BY <3>1, <3>2
    <3>4. job'.commands = job.commands /\ job'.mixed = job.mixed /\ job'.pending = Tail(job.pending)
      BY <3>3
    <3>5. /\ IsList(job.pending) /\ \A w \in ToSet(job.pending) : w.doc # Empty /\ FileOK(w.path, w.doc)
          /\ IsList(job.commands) /\ \A cmd \in ToSet(job.commands) : IsCommand(cmd)
      BY <3>1 DEF Idle
    <3>6. IsList(Tail(job.pending)) /\ ToSet(Tail(job.pending)) \subseteq ToSet(job.pending)
      BY <3>1, <3>5, TailElements
    <3> QED BY <3>3, <3>4, <3>5, <3>6
  <2> QED BY <2>1, <2>2
<1>5. CASE Interrupt
  BY <1>5 DEF Interrupt
<1>6. CASE UNCHANGED job
  BY <1>6
<1> QED
  BY <1>1, <1>2, <1>3, <1>4, <1>5, <1>6
  DEF Next, Capture, RestoreFile, RemoveFile, Verify, Push, vars

\* What the files of a run hold once its next write is done.
LEMMA WriteHolds ==
    ASSUME NEW t, NEW path, NEW doc, NEW w,
           (w.path = path /\ w.doc = doc) \/ (w.path # path /\ Holds(t, w))
    PROVE  Holds(writeFile(t, path, doc), w)
BY DEF Holds, writeFile

LEMMA RunBegins ==
    ASSUME NEW r \in Revisions, NEW captured, NEW t
    PROVE  RunOK(Contents[r], captured, t, Commands(Contents[r]), << >>)
<1> DEFINE cmds == Commands(Contents[r])
<1>1. IsList(cmds)
  BY CommandsKnown
<1>2. ToSet(<< >>) = {}
  BY DEF ToSet
<1> HIDE DEF cmds
<1>3. Len(cmds) \in Nat
  BY <1>1 DEF IsList
<1>4. 0 + Len(cmds) = Len(cmds) /\ \A j \in 1 .. Len(cmds) : cmds[j] = cmds[0 + j]
  BY <1>3
<1>5. 1 .. 0 = {}
  OBVIOUS
<1> QED BY <1>2, <1>4, <1>5 DEF RunOK, cmds

LEMMA RunAdvances ==
    ASSUME NEW r \in Revisions, NEW src, src = Contents[r], NEW captured, NEW t,
           NEW commands, IsList(commands), commands # << >>, IsCommand(Head(commands)),
           RunOK(src, captured, t, commands, << >>), Outcome(src, captured, Head(commands)).ok
    PROVE  RunOK(src, captured, t, Tail(commands), Outcome(src, captured, Head(commands)).writes)
<1> DEFINE cmds == Commands(src)
           cmd  == Head(commands)
<1>1. PICK k \in Nat :
          /\ k + Len(commands) = Len(cmds)
          /\ \A j \in 1 .. Len(commands) : commands[j] = cmds[k + j]
          /\ \A i \in 1 .. k :
                 /\ Outcome(src, captured, cmds[i]).ok
                 /\ \A w \in Emits(src, captured, cmds[i]) : w \in ToSet(<< >>) \/ Holds(t, w)
  BY DEF RunOK
<1>2. /\ Len(commands) \in Nat \ {0} /\ cmd = commands[1]
      /\ Len(Tail(commands)) = Len(commands) - 1
      /\ \A j \in 1 .. Len(commands) - 1 : Tail(commands)[j] = commands[j + 1]
  <2> DEFINE S == ToSet(commands)
  <2>1. commands \in Seq(S)
    BY DEF IsList
  <2> HIDE DEF S
  <2>2. /\ Len(Tail(commands)) = Len(commands) - 1
        /\ \A j \in 1 .. Len(Tail(commands)) : Tail(commands)[j] = commands[j + 1]
    BY <2>1, HeadTailProperties
  <2>3. Len(commands) \in Nat \ {0} /\ cmd = commands[1]
    BY <2>1
  <2> QED BY <2>2, <2>3
<1>3. cmd = cmds[k + 1]
  BY <1>1, <1>2
<1>4. (k + 1) + Len(Tail(commands)) = Len(cmds)
  <2> HIDE DEF cmds
  <2> QED BY <1>1, <1>2
<1>5. \A j \in 1 .. Len(Tail(commands)) : Tail(commands)[j] = cmds[(k + 1) + j]
  <2>1. \A j \in 1 .. Len(commands) - 1 :
            j + 1 \in 1 .. Len(commands) /\ k + (j + 1) = (k + 1) + j
    BY <1>2
  <2> HIDE DEF cmds
  <2> QED BY <1>1, <1>2, <2>1
<1>6. ASSUME NEW i \in 1 .. k + 1
      PROVE  /\ Outcome(src, captured, cmds[i]).ok
             /\ \A w \in Emits(src, captured, cmds[i]) :
                    w \in ToSet(Outcome(src, captured, cmd).writes) \/ Holds(t, w)
  <2>1. CASE i = k + 1
    BY <1>3, <2>1 DEF Emits
  <2>2. CASE i # k + 1
    <3>1. i \in 1 .. k
      BY <2>2
    <3>2. ToSet(<< >>) = {}
      BY DEF ToSet
    <3> QED BY <1>1, <3>1, <3>2
  <2> QED BY <2>1, <2>2
<1>7. \A w \in ToSet(Outcome(src, captured, cmd).writes) : w.doc = DocOf(src, captured, w.path)
  BY WritesKnown
<1> HIDE DEF cmd
<1>8. k + 1 \in Nat
  OBVIOUS
<1> QED BY <1>4, <1>5, <1>6, <1>7, <1>8 DEF RunOK, cmd

LEMMA RunWrites ==
    ASSUME NEW r \in Revisions, NEW src, src = Contents[r], NEW captured, NEW t,
           NEW commands, Len(commands) \in Nat, NEW pending, IsList(pending), pending # << >>,
           RunOK(src, captured, t, commands, pending)
    PROVE  RunOK(src, captured, writeFile(t, Head(pending).path, Head(pending).doc),
                 commands, Tail(pending))
<1> DEFINE cmds == Commands(src)
           h    == Head(pending)
           u    == writeFile(t, h.path, h.doc)
<1>1. PICK k \in Nat :
          /\ k + Len(commands) = Len(cmds)
          /\ \A j \in 1 .. Len(commands) : commands[j] = cmds[k + j]
          /\ \A i \in 1 .. k :
                 /\ Outcome(src, captured, cmds[i]).ok
                 /\ \A w \in Emits(src, captured, cmds[i]) : w \in ToSet(pending) \/ Holds(t, w)
          /\ \A w \in ToSet(pending) : w.doc = DocOf(src, captured, w.path)
  BY DEF RunOK
<1>2. h \in ToSet(pending) /\ ToSet(pending) = {h} \union ToSet(Tail(pending))
  BY TailElements
<1>3. ASSUME NEW i \in 1 .. k, NEW w \in Emits(src, captured, cmds[i])
      PROVE  w \in ToSet(Tail(pending)) \/ Holds(u, w)
  <2>1. IsCommand(cmds[i])
    <3>1. IsList(cmds) /\ \A cmd \in ToSet(cmds) : IsCommand(cmd)
      BY CommandsKnown
    <3>2. cmds[i] \in ToSet(cmds)
      <4> HIDE DEF cmds
      <4>1. i \in 1 .. Len(cmds)
        BY <1>1
      <4> QED BY <3>1, <4>1 DEF IsList, ToSet
    <3> QED BY <3>1, <3>2
  <2>2. w.doc = DocOf(src, captured, w.path)
    BY <2>1, WritesKnown DEF Emits
  <2>3. w \in ToSet(pending) \/ Holds(t, w)
    BY <1>1
  <2> HIDE DEF h
  <2>4. CASE w.path = h.path
    <3>1. w.doc = h.doc
      BY <1>1, <1>2, <2>2, <2>4
    <3> QED BY <2>4, <3>1, WriteHolds
  <2>5. CASE w.path # h.path
    <3>1. w # h
      BY <2>5
    <3> QED BY <1>2, <2>3, <2>5, <3>1, WriteHolds
  <2> QED BY <2>4, <2>5
<1>4. \A w \in ToSet(Tail(pending)) : w.doc = DocOf(src, captured, w.path)
  BY <1>1, <1>2
<1> HIDE DEF u
<1> QED BY <1>1, <1>3, <1>4 DEF RunOK, u

LEMMA RunStep == TypeInv /\ AheadInv /\ RunInv /\ [Next]_vars => RunInv'
<1> SUFFICES ASSUME TypeInv, AheadInv, RunInv, [Next]_vars PROVE RunInv'
  OBVIOUS
<1>a. source \in Revisions
  BY DEF TypeInv
<1>1. CASE ~job'.active \/ job'.mixed
  BY <1>1 DEF RunInv
<1>2. ASSUME NEW r \in Revisions, Edit(r) PROVE RunInv'
  <2>1. CASE job = Idle
    BY <1>2, <2>1, <1>1 DEF Edit, Idle
  <2>2. CASE job # Idle
    <3>1. job' = [job EXCEPT !.mixed = TRUE] \/ ~job'.active
      BY <1>2, <2>2 DEF Edit
    <3>2. job = [active |-> TRUE, commands |-> job.commands, pending |-> job.pending, mixed |-> job.mixed]
      BY <2>2 DEF AheadInv
    <3> QED BY <1>1, <3>1, <3>2
  <2> QED BY <2>1, <2>2
<1>3. CASE StartGenerate
  <2>1. /\ job' = [active |-> TRUE, commands |-> Commands(Contents[source]),
                   pending |-> << >>, mixed |-> FALSE]
        /\ source' = source /\ fixtures' = fixtures /\ tree' = tree
    BY <1>3 DEF StartGenerate
  <2>2. job'.commands = Commands(Contents[source]) /\ job'.pending = << >>
    BY <2>1
  <2> QED BY <1>a, <2>1, <2>2, RunBegins DEF RunInv
<1>4. CASE RunCommand /\ job' # Idle
  <2> DEFINE cmd    == Head(job.commands)
             result == Outcome(Contents[source], fixtures, cmd)
  <2>1. /\ job.active /\ job.commands # << >> /\ job.pending = << >> /\ result.ok
        /\ job' = [job EXCEPT !.commands = Tail(@), !.pending = result.writes]
        /\ source' = source /\ fixtures' = fixtures /\ tree' = tree
    BY <1>4 DEF RunCommand
  <2>2. job = [active |-> TRUE, commands |-> job.commands, pending |-> job.pending, mixed |-> job.mixed]
    BY <2>1 DEF AheadInv, Idle
  <2>3. /\ job'.commands = Tail(job.commands) /\ job'.pending = result.writes
        /\ job'.mixed = job.mixed
    BY <2>1, <2>2
  <2>4. IsList(job.commands) /\ IsCommand(cmd)
    <3>1. IsList(job.commands) /\ \A c \in ToSet(job.commands) : IsCommand(c)
      BY <2>1 DEF AheadInv, Idle
    <3> QED BY <2>1, <3>1, TailElements
  <2>5. SUFFICES ASSUME ~job.mixed PROVE RunInv'
    BY <1>1, <2>3
  <2>6. RunOK(Contents[source], fixtures, tree, job.commands, << >>)
    BY <2>1, <2>5 DEF RunInv
  <2>7. RunOK(Contents[source], fixtures, tree, Tail(job.commands), result.writes)
    BY <1>a, <2>1, <2>4, <2>6, RunAdvances
  <2> QED BY <2>1, <2>3, <2>7 DEF RunInv
<1>5. CASE WriteFile /\ job' # Idle
  <2> DEFINE h == Head(job.pending)
  <2>1. /\ job.active /\ job.pending # << >> /\ job' = [job EXCEPT !.pending = Tail(job.pending)]
        /\ source' = source /\ fixtures' = fixtures /\ tree' = writeFile(tree, h.path, h.doc)
    BY <1>5 DEF WriteFile
  <2>2. job = [active |-> TRUE, commands |-> job.commands, pending |-> job.pending, mixed |-> job.mixed]
    BY <2>1 DEF AheadInv, Idle
  <2>3. job'.commands = job.commands /\ job'.pending = Tail(job.pending) /\ job'.mixed = job.mixed
    BY <2>1, <2>2
  <2>4. SUFFICES ASSUME ~job.mixed PROVE RunInv'
    BY <1>1, <2>3
  <2>5. IsList(job.pending) /\ Len(job.commands) \in Nat
    BY <2>1 DEF AheadInv, Idle, IsList
  <2>6. RunOK(Contents[source], fixtures, tree, job.commands, job.pending)
    BY <2>1, <2>4 DEF RunInv
  <2>7. RunOK(Contents[source], fixtures, writeFile(tree, h.path, h.doc),
              job.commands, Tail(job.pending))
    BY <1>a, <2>1, <2>5, <2>6, RunWrites
  <2> QED BY <2>1, <2>3, <2>7 DEF RunInv
<1>6. CASE ~job.active /\ UNCHANGED job
  BY <1>1, <1>6
<1>7. CASE UNCHANGED <<source, fixtures, tree, job>>
  BY <1>7 DEF RunInv
<1>8. CASE job' = Idle
  BY <1>1, <1>8 DEF Idle
<1> QED
  BY <1>2, <1>3, <1>4, <1>5, <1>6, <1>7, <1>8
  DEF Next, Capture, RunCommand, WriteFile, Interrupt, RestoreFile, RemoveFile, Verify, Push, vars

Covered(src, captured, path) ==
    \E cmd \in ToSet(Commands(src)) : \E w \in Emits(src, captured, cmd) : w.path = path

\* When no command fails, some command writes each file but a dashboard.
LEMMA PathsCovered ==
    ASSUME NEW r \in Revisions, NEW captured, Succeeds(Contents[r], captured),
           NEW path, KnownPath(path), path[1] # "grafana"
    PROVE  Covered(Contents[r], captured, path)
<1> DEFINE src == Contents[r]
<1>0. \A cmd \in ToSet(Commands(src)) : Outcome(src, captured, cmd).ok
  BY DEF Succeeds
<1>1. ASSUME NEW surface \in RuleSurface, NEW profile \in ToSet(Profiles),
             path = <<surface, profile, RecordingFile>>
      PROVE  Covered(src, captured, path)
  <2> DEFINE cmd   == Command("prometheus-rules", RecordingFile, profile)
             rules == buildPrometheusRule(src.records, prefixOf(profile, src.metrics.default))
  <2>1. cmd \in ToSet(Commands(src))
    BY CommandsKnown
  <2>2. cmd.verb = "prometheus-rules" /\ cmd.profile = profile
    BY DEF Command
  <2> HIDE DEF cmd
  <2>3. Outcome(src, captured, cmd).writes
            = <<[path |-> <<"operator", profile, RecordingFile>>, doc |-> RuleFile(rules)],
                [path |-> <<"native", profile, RecordingFile>>, doc |-> RuleFile(rules)]>>
    BY <2>2 DEF Outcome, GeneratePrometheusRules
  <2>4. \E w \in Emits(src, captured, cmd) : w.path = <<surface, profile, RecordingFile>>
    <3> HIDE DEF rules
    <3>1. [path |-> <<surface, profile, RecordingFile>>, doc |-> RuleFile(rules)]
              \in Emits(src, captured, cmd)
      BY <2>3 DEF Emits, RuleSurface, ToSet
    <3> QED BY <3>1
  <2> QED BY <1>1, <2>1, <2>4 DEF Covered
<1>2. ASSUME NEW surface \in Surfaces, NEW profile \in ToSet(Profiles), NEW file \in AlertFiles,
             path = <<surface, profile, file>>
      PROVE  Covered(src, captured, path)
  <2> DEFINE cmd == Command("alert-rules", file, profile)
             Doc(type) == RuleFile(buildAlertRules(src.alerts[file], type,
                             prefixOf(profile, DefaultSourcePrefix(src.alerts[file]))))
  <2>1. cmd \in ToSet(Commands(src))
    BY CommandsKnown
  <2>2. cmd.verb = "alert-rules" /\ cmd.profile = profile /\ cmd.file = file
    BY DEF Command
  <2> HIDE DEF cmd
  <2>3. file \in DOMAIN src.alerts
    <3>1. CASE file \notin DOMAIN src.alerts
      <4>1. Outcome(src, captured, cmd) = [ok |-> FALSE, writes |-> << >>]
        BY <2>2, <3>1 DEF Outcome
      <4>2. ~Outcome(src, captured, cmd).ok
        BY <4>1
      <4> QED BY <1>0, <2>1, <4>2
    <3> QED BY <3>1
  <2>4. Outcome(src, captured, cmd).writes
            = <<[path |-> <<"operator", profile, file>>, doc |-> Doc("prometheus")],
                [path |-> <<"native", profile, file>>, doc |-> Doc("prometheus")],
                [path |-> <<"loki", profile, file>>, doc |-> Doc("loki")]>>
    BY <2>2, <2>3 DEF Outcome, GenerateAlertRules
  <2>5. \E w \in Emits(src, captured, cmd) : w.path = <<surface, profile, file>>
    <3> HIDE DEF Doc
    <3>1. \A s \in Surfaces : \E i \in 1 .. 3 :
              Outcome(src, captured, cmd).writes[i].path = <<s, profile, file>>
      BY <2>4 DEF Surfaces
    <3>2. DOMAIN Outcome(src, captured, cmd).writes = 1 .. 3
      BY <2>4
    <3> QED BY <3>1, <3>2 DEF Emits, ToSet
  <2> QED BY <1>2, <2>1, <2>5 DEF Covered
<1>3. ASSUME path = <<"docs", "default", "matrix">>
      PROVE  Covered(src, captured, path)
  <2> DEFINE cmd == Command("compatibility-matrix", "matrix", "default")
  <2>1. cmd \in ToSet(Commands(src))
    BY CommandsKnown
  <2>2. cmd.verb = "compatibility-matrix"
    BY DEF Command
  <2> HIDE DEF cmd
  <2>3. Outcome(src, captured, cmd).writes
            = <<[path |-> <<"docs", "default", "matrix">>,
                 doc |-> renderMatrix(src.metrics, src.makefile.version, captured)]>>
    BY <2>2 DEF Outcome, GenerateMatrix
  <2>4. [path |-> <<"docs", "default", "matrix">>,
         doc |-> renderMatrix(src.metrics, src.makefile.version, captured)]
            \in Emits(src, captured, cmd)
    BY <2>3 DEF Emits, ToSet
  <2> QED BY <1>3, <2>1, <2>4 DEF Covered
<1>4. \A file : path # <<"grafana", "default", file>>
  OBVIOUS
<1> QED
  BY <1>1, <1>2, <1>3, <1>4 DEF KnownPath, Files, Surfaces, RuleSurface

\* A run that comes to its end leaves what a run in an empty tree leaves.
LEMMA RunEnds ==
    ASSUME NEW r \in Revisions, NEW captured \in LocalFixtures \union {FreshFixtures}, NEW t,
           RunOK(Contents[r], captured, t, << >>, << >>)
    PROVE  LET built == Build[r][captured].files
           IN  /\ \A path \in DOMAIN built : path \in DOMAIN t /\ t[path] = built[path]
               /\ \A path : KnownPath(path) /\ path[1] # "grafana" => path \in DOMAIN built
<1> DEFINE src   == Contents[r]
           cmds  == Commands(src)
           built == Build[r][captured].files
<1>1. built = Generated(src, captured).files
  BY DEF Build
<1>2. ASSUME NEW cmd \in ToSet(cmds)
      PROVE  /\ Outcome(src, captured, cmd).ok
             /\ \A w \in Emits(src, captured, cmd) : Holds(t, w)
  <2>1. IsList(cmds)
    BY CommandsKnown
  <2>2. PICK k \in Nat :
            /\ k + Len(<< >>) = Len(cmds)
            /\ \A i \in 1 .. k :
                   /\ Outcome(src, captured, cmds[i]).ok
                   /\ \A w \in Emits(src, captured, cmds[i]) : w \in ToSet(<< >>) \/ Holds(t, w)
    BY DEF RunOK
  <2>3. PICK i \in 1 .. k : cmd = cmds[i]
    <3> HIDE DEF cmds
    <3> QED BY <2>1, <2>2 DEF IsList, ToSet
  <2>4. ToSet(<< >>) = {}
    BY DEF ToSet
  <2> QED BY <2>2, <2>3, <2>4
<1>3. Succeeds(src, captured)
  BY <1>2 DEF Succeeds
<1>4. OnlyEmitted(src, captured, built) /\ AllEmitted(src, captured, built)
  BY <1>1, <1>3, GeneratedKnown
<1> HIDE DEF built
<1>5. ASSUME NEW path \in DOMAIN built PROVE path \in DOMAIN t /\ t[path] = built[path]
  <2>1. PICK cmd \in ToSet(cmds) :
            \E w \in Emits(src, captured, cmd) : w.path = path /\ built[path] = w.doc
    BY <1>4 DEF OnlyEmitted
  <2> QED BY <1>2, <2>1 DEF Holds
<1>6. ASSUME NEW path, KnownPath(path), path[1] # "grafana" PROVE path \in DOMAIN built
  <2>1. PICK cmd \in ToSet(cmds) : \E w \in Emits(src, captured, cmd) : w.path = path
    <3>1. path[1] # "grafana"
      BY <1>6
    <3>2. Covered(src, captured, path)
      BY <1>3, <1>6, <3>1, PathsCovered, Zenon
    <3> QED BY <3>2 DEF Covered
  <2> QED BY <1>4, <2>1 DEF AllEmitted
<1> QED BY <1>5, <1>6 DEF built

LEMMA RerunStep ==
    /\ TypeInv /\ TypeInv' /\ AheadInv /\ RunInv /\ RerunForgetsHistory /\ [Next]_vars
    => RerunForgetsHistory'
<1> SUFFICES ASSUME TypeInv, TypeInv', AheadInv, RunInv, RerunForgetsHistory, [Next]_vars
             PROVE  RerunForgetsHistory'
  OBVIOUS
<1>1. CASE WriteFile /\ outcome' = "done"
  <2>1. job.active /\ outcome = "none"
    BY <1>1 DEF WriteFile, TypeInv, Idle
  <2>2. /\ ~job.mixed /\ job.commands = << >> /\ job.pending # << >> /\ Tail(job.pending) = << >>
        /\ tree' = writeFile(tree, Head(job.pending).path, Head(job.pending).doc)
        /\ source' = source /\ fixtures' = fixtures
    BY <1>1, <2>1 DEF WriteFile
  <2>3. IsList(job.pending) /\ Len(job.commands) \in Nat
    BY <2>1 DEF AheadInv, Idle, IsList
  <2>4. source \in Revisions /\ fixtures \in LocalFixtures \union {FreshFixtures}
    BY DEF TypeInv
  <2>5. RunOK(Contents[source], fixtures, tree', << >>, << >>)
    BY <2>1, <2>2, <2>3, <2>4, RunWrites DEF RunInv
  <2>6. \A path \in DOMAIN tree' : KnownPath(path)
    BY DEF TypeInv, TreeOK, FileOK
  <2> QED BY <2>2, <2>4, <2>5, <2>6, RunEnds DEF RerunForgetsHistory
<1>2. CASE outcome' # "done"
  BY <1>2 DEF RerunForgetsHistory
<1>3. CASE UNCHANGED <<outcome, tree, source, fixtures>>
  BY <1>3 DEF RerunForgetsHistory
<1> QED
  BY <1>1, <1>2, <1>3
  DEF Next, Edit, Capture, StartGenerate, RunCommand, Interrupt, RestoreFile, RemoveFile,
      Verify, Push, vars

LEMMA MishapStep == TypeInv /\ AheadInv /\ MishapInv /\ [Next]_vars => MishapInv'
<1> SUFFICES ASSUME TypeInv, AheadInv, MishapInv, [Next]_vars PROVE MishapInv'
  OBVIOUS
<1> USE DEF MishapInv
<1>0. used.mishaps \in Nat
  BY DEF TypeInv
<1>1. CASE UNCHANGED <<tree, head>> /\ used'.mishaps = used.mishaps
  BY <1>1
<1>2. CASE \E r \in Revisions : Edit(r)
  <2>1. used' = [used EXCEPT !["edits"] = used["edits"] + 1]
    BY <1>2 DEF Edit, Count
  <2>2. used'.mishaps = used.mishaps
    BY <2>1 DEF TypeInv
  <2> QED BY <1>1, <1>2, <2>2 DEF Edit
<1>3. CASE WriteFile
  <2>1. tree' = writeFile(tree, Head(job.pending).path, Head(job.pending).doc)
    BY <1>3 DEF WriteFile
  <2>2. Head(job.pending).doc # Empty
    BY <1>3, PendingHead DEF WriteFile
  <2>3. \A path \in DOMAIN tree' : tree'[path] = Empty => path \in DOMAIN tree /\ tree[path] = Empty
    BY <2>1, <2>2 DEF writeFile
  <2>4. used' = used /\ head' = head
    BY <1>3 DEF WriteFile
  <2> QED BY <2>3, <2>4
<1>4. CASE Interrupt
  <2>1. used'.mishaps = used.mishaps + 1 /\ head' = head
    BY <1>4 DEF Interrupt, Count, TypeInv
  <2>2. used'.mishaps # 0 /\ (used'.mishaps = 1 => used.mishaps = 0)
    BY <1>0, <2>1
  <2>3. CASE tree' = tree
    BY <2>2, <2>3
  <2>4. CASE tree' = writeFile(tree, Head(job.pending).path, Empty)
    BY <2>2, <2>4 DEF writeFile
  <2> QED BY <1>4, <2>3, <2>4 DEF Interrupt
<1>5. ASSUME NEW path \in DOMAIN head.tree, RestoreFile(path) PROVE MishapInv'
  <2>1. used'.mishaps = used.mishaps + 1 /\ head' = head
    BY <1>5 DEF RestoreFile, Count, TypeInv
  <2>2. used'.mishaps # 0 /\ (used'.mishaps = 1 => used.mishaps = 0)
    BY <1>0, <2>1
  <2>3. tree' = writeFile(tree, path, head.tree[path])
    BY <1>5 DEF RestoreFile
  <2> QED BY <2>2, <2>3 DEF writeFile
<1>6. ASSUME NEW path, RemoveFile(path) PROVE MishapInv'
  <2>1. used'.mishaps = used.mishaps + 1 /\ head' = head
    BY <1>6 DEF RemoveFile, Count, TypeInv
  <2>2. used'.mishaps # 0 /\ (used'.mishaps = 1 => used.mishaps = 0)
    BY <1>0, <2>1
  <2>3. tree' = [p \in DOMAIN tree \ {path} |-> tree[p]]
    BY <1>6 DEF RemoveFile
  <2> QED BY <2>2, <2>3
<1>7. ASSUME NEW everything \in BOOLEAN, Push(everything) PROVE MishapInv'
  <2>1. PICK paths \in SUBSET DOMAIN tree :
            head' = [source |-> source, tree |-> [path \in paths |-> tree[path]]]
    BY <1>7 DEF Push
  <2>2. head'.tree = [path \in paths |-> tree[path]]
    BY <2>1
  <2>3. used' = [used EXCEPT !["pushes"] = used["pushes"] + 1] /\ tree' = tree
    BY <1>7 DEF Push, Count
  <2>4. used'.mishaps = used.mishaps
    BY <2>3 DEF TypeInv
  <2> QED BY <2>2, <2>3, <2>4
<1> QED
  BY <1>1, <1>2, <1>3, <1>4, <1>5, <1>6, <1>7
  DEF Next, Capture, StartGenerate, RunCommand, Verify, vars

LEMMA InitLife == Init => LifeInv
<1> SUFFICES ASSUME Init PROVE LifeInv
  OBVIOUS
<1>1. AheadInv /\ RunInv /\ RerunForgetsHistory
  BY DEF Init, AheadInv, RunInv, RerunForgetsHistory, Idle
<1>2. \A path \in DOMAIN tree : tree[path] # Empty
  BY BuildKnown, RepositoryAssumption DEF Init
<1>3. head.tree = tree /\ used.mishaps = 0
  BY DEF Init
<1>4. MishapInv
  BY <1>2, <1>3 DEF MishapInv
<1> QED BY <1>1, <1>4, InitType DEF LifeInv

\* The files a tree holds, the run under way and the traces of kills, for all
\* revisions and any number of edits, runs, kills and pushes.
THEOREM LifeHolds == Spec => []LifeInv
<1>1. LifeInv /\ [Next]_vars => LifeInv'
  BY TypeStep, AheadStep, RunStep, RerunStep, MishapStep DEF LifeInv
<1> QED BY <1>1, InitLife, PTL DEF Spec

\* A run of `make generate` that ends forgets what was there before it, however
\* many runs failed, were killed or wrote files of other contracts.
THEOREM RerunsForgetHistory == Spec => []RerunForgetsHistory
<1>1. LifeInv => RerunForgetsHistory
  BY DEF LifeInv
<1> QED BY <1>1, LifeHolds, PTL

------------------------------------------------------------------------------
(* What an accepted tree holds. *)

\* A file of an accepted tree that a kill left truncated is the matrix, a Loki
\* file of the openbao profile, or one of two equally truncated Loki files.
LEMMA TruncatedFiles ==
    ASSUME NEW src, TreeOK(tree), VerifyRepository(src, tree),
           NEW path \in DOMAIN tree, tree[path] = Empty
    PROVE  \/ path[1] = "docs"
           \/ path[1] = "loki" /\ path[2] = "openbao"
           \/ \E p, q \in DOMAIN tree : p # q /\ tree[p] = Empty /\ tree[q] = Empty
<1>1. KnownPath(path)
  BY DEF TreeOK, FileOK
<1>2. tree[path].kind = "empty"
  BY DEF Empty
<1>3. verifyPrefixVariants(tree, src.streams) /\ verifyGeneratedDashboards(src, tree)
  BY DEF VerifyRepository
<1>4. ASSUME NEW surface \in RuleSurface, NEW profile \in ToSet(Profiles), NEW file \in Files,
             path = <<surface, profile, file>>
      PROVE  FALSE
  <2>1. verifyPrometheusRuleParity(tree, profile, file)
    BY <1>3 DEF verifyPrefixVariants, verifyPrometheusRuleProfiles
  <2>2. tree[<<surface, profile, file>>].kind = "rules"
    BY <2>1 DEF verifyPrometheusRuleParity, RuleSurface
  <2> QED BY <1>2, <1>4, <2>2
<1>5. ASSUME NEW file, path = <<"grafana", "default", file>> PROVE FALSE
  <2>1. path \in dashboardPaths(tree)
    BY <1>5 DEF dashboardPaths
  <2>2. tree[path].kind = "dashboard"
    BY <1>3, <2>1
    DEF verifyGeneratedDashboards, loadGeneratedDashboardFiles, validateGeneratedDashboardSchema
  <2> QED BY <1>2, <2>2
<1>6. ASSUME NEW profile \in {"default", "vault"}, NEW file \in AlertFiles,
             path = <<"loki", profile, file>>
      PROVE  \E p, q \in DOMAIN tree : p # q /\ tree[p] = Empty /\ tree[q] = Empty
  <2>1. verifySameFile(tree, "loki", file)
    BY <1>3 DEF verifyPrefixVariants, Surfaces, SurfaceFiles
  <2>2. /\ <<"loki", "default", file>> \in DOMAIN tree /\ <<"loki", "vault", file>> \in DOMAIN tree
        /\ tree[<<"loki", "default", file>>] = tree[<<"loki", "vault", file>>]
    BY <2>1 DEF verifySameFile, Exists
  <2>3. tree[<<"loki", "default", file>>] = Empty /\ tree[<<"loki", "vault", file>>] = Empty
    BY <1>6, <2>2
  <2>4. <<"loki", "default", file>> # <<"loki", "vault", file>>
    OBVIOUS
  <2> QED BY <2>2, <2>3, <2>4
<1> QED BY <1>1, <1>4, <1>5, <1>6, ThreeProfiles DEF KnownPath

\* After at most one kill or restored file no truncated rule file or dashboard
\* is accepted, but for Loki rules of the openbao profile.
THEOREM TornFilesAreRejected == Spec => []TornFilesRejected
<1>1. IInv /\ LifeInv => TornFilesRejected
  <2> SUFFICES ASSUME IInv, LifeInv, verdict = "accepted", used.mishaps <= 1,
                      NEW path \in DOMAIN tree, tree[path] = Empty
               PROVE  path[1] = "docs" \/ (path[1] = "loki" /\ path[2] = "openbao")
    BY DEF TornFilesRejected
  <2>1. VerifyRepository(Contents[source], tree) /\ TreeOK(tree)
    BY DEF IInv, VerdictInv, LifeInv, TypeInv
  <2>2. used.mishaps = 0 \/ used.mishaps = 1
    BY DEF LifeInv, TypeInv
  <2>3. ~(\E p, q \in DOMAIN tree : p # q /\ tree[p] = Empty /\ tree[q] = Empty)
    BY <2>2 DEF LifeInv, MishapInv
  <2> QED BY <2>1, <2>3, TruncatedFiles
<1> QED BY <1>1, VerdictsHold, LifeHolds, PTL

\* The globs of a surface find exactly the alert files of the default profile.
LEMMA DefaultAlerts ==
    ASSUME TreeOK(tree), NEW surface \in {"native", "loki"}
    PROVE  UNION {Names(rulesOf(tree, <<surface, "default", file>>), "alert") : file \in AlertFiles}
               = loadGeneratedAlertNames(tree, surface)
<1>1. ASSUME NEW path \in rulePaths(tree, surface),
             NEW n \in Names(rulesOf(tree, path), "alert")
      PROVE  \E file \in AlertFiles : path = <<surface, "default", file>>
  <2>1. path \in DOMAIN tree /\ path[1] = surface /\ path[2] = "default"
    BY DEF rulePaths
  <2>2. FileOK(path, tree[path])
    BY <2>1 DEF TreeOK
  <2>3. CASE path = <<"native", "default", RecordingFile>>
    <3>1. \A rule \in ToSet(rulesOf(tree, path)) : rule.alert = ""
      <4>1. tree[path].kind = "rules" => \A rule \in ToSet(tree[path].rules) : rule.alert = ""
        BY <2>2, <2>3 DEF FileOK, RuleSurface
      <4>2. ToSet(<< >>) = {}
        BY DEF ToSet
      <4> QED BY <4>1, <4>2 DEF rulesOf
    <3>2. Names(rulesOf(tree, path), "alert") = {}
      BY <3>1 DEF Names
    <3> QED BY <3>2
  <2>4. CASE \E file \in AlertFiles : path = <<surface, "default", file>>
    BY <2>4
  <2>5. KnownPath(path)
    BY <2>2 DEF FileOK
  <2>6. \/ \E file \in Files : path = <<surface, "default", file>> /\ surface = "native"
        \/ \E file \in AlertFiles : path = <<surface, "default", file>>
    <3>1. ASSUME NEW s \in RuleSurface, NEW profile \in ToSet(Profiles), NEW file \in Files,
                 path = <<s, profile, file>>
          PROVE  path = <<surface, "default", file>> /\ surface = "native"
      BY <2>1, <3>1 DEF RuleSurface
    <3>2. ASSUME NEW profile \in ToSet(Profiles), NEW file \in AlertFiles,
                 path = <<"loki", profile, file>>
          PROVE  path = <<surface, "default", file>>
      BY <2>1, <3>2
    <3>3. path # <<"docs", "default", "matrix">> /\ \A file : path # <<"grafana", "default", file>>
      BY <2>1
    <3> QED BY <2>5, <3>1, <3>2, <3>3 DEF KnownPath
  <2> QED BY <2>3, <2>4, <2>6 DEF Files
<1>2. ASSUME NEW file \in AlertFiles, NEW n \in Names(rulesOf(tree, <<surface, "default", file>>), "alert")
      PROVE  <<surface, "default", file>> \in rulePaths(tree, surface)
  <2>1. rulesOf(tree, <<surface, "default", file>>) # << >>
    <3>1. ToSet(<< >>) = {}
      BY DEF ToSet
    <3>2. Names(<< >>, "alert") = {}
      BY <3>1 DEF Names
    <3> QED BY <1>2, <3>2
  <2>2. <<surface, "default", file>> \in DOMAIN tree
    BY <2>1 DEF rulesOf, Exists
  <2> QED BY <2>2 DEF rulePaths
<1> QED BY <1>1, <1>2 DEF loadGeneratedAlertNames

LEMMA AlertsMatch ==
    ASSUME NEW src, TreeOK(tree), VerifyRepository(src, tree),
           NEW surface \in Surfaces, NEW profile \in {"default", "vault"}
    PROVE  UNION {Names(rulesOf(tree, <<surface, profile, file>>), "alert") : file \in AlertFiles}
               = ExpectedAlerts(src, IF surface = "loki" THEN "loki" ELSE "prometheus")
<1>1. compareGeneratedAlertFiles(src, tree) /\ verifyPrefixVariants(tree, src.streams)
  BY DEF VerifyRepository, verifyGeneratedAlerts
<1>2. ASSUME NEW file \in AlertFiles
      PROVE  rulesOf(tree, <<surface, profile, file>>)
                 = rulesOf(tree, <<IF surface = "loki" THEN "loki" ELSE "native", "default", file>>)
  <2>1. file \in SurfaceFiles(surface) /\ file \in Files
    BY DEF SurfaceFiles, Files
  <2>2. verifySameFile(tree, surface, file)
    BY <1>1, <2>1 DEF verifyPrefixVariants
  <2>3. rulesOf(tree, <<surface, profile, file>>) = rulesOf(tree, <<surface, "default", file>>)
    BY <2>2 DEF verifySameFile, rulesOf, Exists
  <2>4. CASE surface = "loki"
    BY <2>3, <2>4
  <2>5. CASE surface # "loki"
    <3>1. verifyPrometheusRuleParity(tree, "default", file)
      BY <1>1, <2>1, ThreeProfiles DEF verifyPrefixVariants, verifyPrometheusRuleProfiles
    <3>2. rulesOf(tree, <<surface, "default", file>>) = rulesOf(tree, <<"native", "default", file>>)
      BY <2>5, <3>1, SameRules DEF Surfaces
    <3> QED BY <2>3, <2>5, <3>2
  <2> QED BY <2>4, <2>5
<1>3. loadGeneratedAlertNames(tree, IF surface = "loki" THEN "loki" ELSE "native")
          = ExpectedAlerts(src, IF surface = "loki" THEN "loki" ELSE "prometheus")
  BY <1>1 DEF compareGeneratedAlertFiles
<1>4. UNION {Names(rulesOf(tree, <<surface, profile, file>>), "alert") : file \in AlertFiles}
          = UNION {Names(rulesOf(tree, <<IF surface = "loki" THEN "loki" ELSE "native",
                                        "default", file>>), "alert") : file \in AlertFiles}
  BY <1>2
<1> QED BY <1>3, <1>4, DefaultAlerts

\* A dashboard that passed against its contract asks what the contract asks.
LEMMA SameQuestions ==
    ASSUME NEW c, NEW d, NEW recorded, NEW streams,
           verifyGeneratedDashboard(c, d, recorded, streams),
           IsList(c.panels), IsList(d.panels), \A p \in ToSet(d.panels) : IsList(p.targets)
    PROVE  {<<p.title, p.targets[1].expr>> : p \in ToSet(d.panels)}
               = {<<p.title, p.expression>> : p \in ToSet(c.panels)}
<1>1. /\ DOMAIN d.panels = DOMAIN c.panels
      /\ \A i \in DOMAIN c.panels :
             verifyGeneratedDashboardPanel(c, c.panels[i], d.panels[i], recorded, streams)
  BY DEF verifyGeneratedDashboard, IsList
<1>2. ASSUME NEW i \in DOMAIN c.panels
      PROVE  d.panels[i].title = c.panels[i].title /\ d.panels[i].targets[1].expr = c.panels[i].expression
  <2> DEFINE g == d.panels[i]
             p == c.panels[i]
  <2>1. /\ g.title = p.title /\ g.targets # << >>
        /\ \A t \in ToSet(g.targets) : t.expr = p.expression
    BY <1>1 DEF verifyGeneratedDashboardPanel
  <2>2. IsList(g.targets)
    BY <1>1 DEF ToSet
  <2> HIDE DEF g, p
  <2>3. g.targets[1] \in ToSet(g.targets)
    BY <2>1, <2>2 DEF IsList, ToSet
  <2>4. g.title = p.title /\ g.targets[1].expr = p.expression
    BY <2>1, <2>3
  <2> QED BY <2>4 DEF g, p
<1> QED BY <1>1, <1>2 DEF ToSet

LEMMA DashboardsMatch ==
    ASSUME NEW r \in Revisions, TreeOK(tree), VerifyRepository(Contents[r], tree)
    PROVE  LET Asked(d)   == {<<p.title, p.targets[1].expr>> : p \in ToSet(d.panels)}
               Asks(c)    == {<<p.title, p.expression>> : p \in ToSet(c.panels)}
               contracts  == Contents[r].dashboards
           IN  {<<path[3], Asked(tree[path])>> : path \in dashboardPaths(tree)}
                   = {<<contracts[f].uid, Asks(contracts[f])>> : f \in DOMAIN contracts}
<1> DEFINE Asked(d)   == {<<p.title, p.targets[1].expr>> : p \in ToSet(d.panels)}
           Asks(c)    == {<<p.title, p.expression>> : p \in ToSet(c.panels)}
           src        == Contents[r]
           contracts  == src.dashboards
           recorded   == loadRecordingRuleNames(tree, <<"native", "default", RecordingFile>>)
<1>1. /\ loadGeneratedDashboardFiles(tree, src.streams)
      /\ \A f \in DOMAIN contracts :
             \E path \in {p \in dashboardPaths(tree) : tree[p].uid = contracts[f].uid} :
                 verifyGeneratedDashboard(contracts[f], tree[path], recorded, src.streams)
      /\ \A path \in dashboardPaths(tree) : \E f \in DOMAIN contracts : contracts[f].uid = tree[path].uid
  BY DEF VerifyRepository, verifyGeneratedDashboards
<1>2. ASSUME NEW path \in dashboardPaths(tree)
      PROVE  /\ path = <<"grafana", "default", tree[path].uid>>
             /\ IsList(tree[path].panels) /\ \A p \in ToSet(tree[path].panels) : IsList(p.targets)
  <2>1. path[3] = tree[path].uid /\ tree[path].kind = "dashboard"
    BY <1>1 DEF loadGeneratedDashboardFiles, validateGeneratedDashboardSchema
  <2>2. path \in DOMAIN tree /\ path[1] = "grafana" /\ FileOK(path, tree[path])
    BY DEF dashboardPaths, TreeOK
  <2>3. PICK file : path = <<"grafana", "default", file>>
    BY <2>2 DEF FileOK, KnownPath, RuleSurface
  <2> QED BY <2>1, <2>2, <2>3 DEF FileOK
<1>3. ASSUME NEW f \in DOMAIN contracts
      PROVE  \E path \in dashboardPaths(tree) :
                 /\ tree[path].uid = contracts[f].uid
                 /\ Asked(tree[path]) = Asks(contracts[f])
  <2>1. PICK path \in dashboardPaths(tree) :
            /\ tree[path].uid = contracts[f].uid
            /\ verifyGeneratedDashboard(contracts[f], tree[path], recorded, src.streams)
    BY <1>1
  <2>2. IsList(contracts[f].panels)
    BY RepositoryAssumption
  <2> HIDE DEF recorded
  <2>3. Asked(tree[path]) = Asks(contracts[f])
    BY <1>2, <2>1, <2>2, SameQuestions
  <2> QED BY <2>1, <2>3
<1>4. ASSUME NEW path \in dashboardPaths(tree)
      PROVE  \E f \in DOMAIN contracts :
                 contracts[f].uid = path[3] /\ Asked(tree[path]) = Asks(contracts[f])
  <2>1. PICK f \in DOMAIN contracts : contracts[f].uid = tree[path].uid
    BY <1>1
  <2>2. PICK other \in dashboardPaths(tree) :
            tree[other].uid = contracts[f].uid /\ Asked(tree[other]) = Asks(contracts[f])
    BY <1>3
  <2> HIDE DEF Asked, Asks
  <2>3. other = path /\ path[3] = tree[path].uid
    BY <1>2, <2>1, <2>2
  <2> QED BY <2>1, <2>2, <2>3
<1>5. \A path \in dashboardPaths(tree) : path[3] = tree[path].uid
  BY <1>2
<1> HIDE DEF Asked, Asks
<1>6. {<<path[3], Asked(tree[path])>> : path \in dashboardPaths(tree)}
          = {<<contracts[f].uid, Asks(contracts[f])>> : f \in DOMAIN contracts}
  BY <1>3, <1>4, <1>5
<1> QED BY <1>6 DEF Asked, Asks

\* An accepted tree has the alerts of the contracts on every surface, and its
\* dashboards ask what the contracts ask: no more and no less.
THEOREM ArtifactsAreOfContracts == Spec => []ArtifactsMatchContracts
<1>1. IInv /\ LifeInv => ArtifactsMatchContracts
  <2> SUFFICES ASSUME IInv, LifeInv, verdict = "accepted" PROVE ArtifactsMatchContracts
    BY DEF ArtifactsMatchContracts
  <2>1. VerifyRepository(Contents[source], tree) /\ TreeOK(tree) /\ source \in Revisions
    BY DEF IInv, VerdictInv, LifeInv, TypeInv
  <2> QED BY <2>1, AlertsMatch, DashboardsMatch DEF ArtifactsMatchContracts
<1> QED BY <1>1, VerdictsHold, LifeHolds, PTL

------------------------------------------------------------------------------
(* The published matrix and the vulnerability gate. *)

\* The fixtures of a supported prefix are taken for those of that prefix.
LEMMA PrefixOfFixtures ==
    ASSUME NEW r \in Revisions, NEW prefix \in ToSet(Contents[r].metrics.supported),
           Distinct(Contents[r].metrics.supported)
    PROVE  fixturePrefix(Contents[r].metrics, prefix \o "-prefix") = prefix
<1> DEFINE c       == Contents[r].metrics
           profile == prefix \o "-prefix"
           named   == {i \in DOMAIN c.supported : c.supported[i] \in NamedIn[profile]}
<1>1. IsList(c.supported) /\ \A other \in ToSet(c.supported) : other \in NamedIn[profile] <=> other = prefix
  BY RepositoryAssumption
<1> HIDE DEF profile
<1>2. PICK i \in DOMAIN c.supported : c.supported[i] = prefix
  BY DEF ToSet
<1>3. \A j \in DOMAIN c.supported : c.supported[j] = prefix => j = i
  BY <1>2 DEF Distinct, IsInjective
<1>4. named = {i}
  <2>1. \A j \in DOMAIN c.supported : c.supported[j] \in NamedIn[profile] <=> c.supported[j] = prefix
    BY <1>1 DEF ToSet
  <2> QED BY <1>2, <1>3, <2>1
<1>5. i \in Int
  BY <1>1, <1>2 DEF IsList
<1>6. (CHOOSE k \in named : \A j \in named : k <= j) = i
  <2> HIDE DEF named
  <2> QED BY <1>4, <1>5
<1>7. fixturePrefix(c, profile)
          = IF named # {} THEN c.supported[CHOOSE k \in named : \A j \in named : k <= j] ELSE c.default
  BY DEF fixturePrefix
<1>8. fixturePrefix(c, profile) = prefix
  <2> HIDE DEF named
  <2> QED BY <1>2, <1>4, <1>6, <1>7
<1> QED BY <1>8 DEF profile

\* When the fixtures hold every required metric of every supported prefix, the
\* matrix shows them.
LEMMA RowsShown ==
    ASSUME NEW r \in Revisions, NEW captured, NEW version,
           VerifyMetricContract(Contents[r].metrics, version, captured),
           NEW row \in renderMatrix(Contents[r].metrics, version, captured).rows,
           row.required, row.profile \in RequiredProfiles(Contents[r].metrics)
    PROVE  row.status \in {"observed", "variable"}
<1> DEFINE c == Contents[r].metrics
<1>1. PICK m \in ToSet(c.metrics) : \E profile \in DOMAIN captured :
          row = [metric |-> m.id, required |-> m.required, profile |-> profile,
                 status |-> observeMetric(captured[profile],
                                          FixtureName(m, fixturePrefix(c, profile)),
                                          metricExpectation(c, m, profile))]
  BY DEF renderMatrix
<1>2. PICK profile \in DOMAIN captured :
          row = [metric |-> m.id, required |-> m.required, profile |-> profile,
                 status |-> observeMetric(captured[profile],
                                          FixtureName(m, fixturePrefix(c, profile)),
                                          metricExpectation(c, m, profile))]
  BY <1>1
<1>3. /\ m.required /\ profile \in RequiredProfiles(c)
      /\ row.status = observeMetric(captured[profile], FixtureName(m, fixturePrefix(c, profile)),
                                    metricExpectation(c, m, profile))
  BY <1>2
<1>4. PICK prefix \in ToSet(c.supported) : profile = prefix \o "-prefix"
  BY <1>3 DEF RequiredProfiles
<1>5. Distinct(c.supported) /\ FixtureName(m, prefix) \in captured[profile]
  BY <1>3, <1>4 DEF VerifyMetricContract, LoadMetricContract, validateMetricPrefixes
<1>6. fixturePrefix(c, profile) = prefix
  BY <1>4, <1>5, PrefixOfFixtures
<1> QED BY <1>3, <1>5, <1>6 DEF observeMetric

\* No commit passes CI whose matrix misses a required metric of a supported
\* prefix, whatever its coverage entries say.
THEOREM RequiredMetricsAreShown == Spec => []RequiredMetricsShown
<1>1. IInv /\ LifeInv => RequiredMetricsShown
  <2> SUFFICES ASSUME IInv, LifeInv, ci.passed, NEW path \in DOMAIN head.tree, path[1] = "docs",
                      NEW row \in head.tree[path].rows, row.required,
                      row.profile \in RequiredProfiles(Contents[head.source].metrics)
               PROVE  row.status \in {"observed", "variable"}
    BY DEF RequiredMetricsShown
  <2> DEFINE r     == head.source
             src   == Contents[r]
             built == Build[r][FreshFixtures]
             files == [p \in DOMAIN built.files \union DOMAIN head.tree |->
                          IF p \in DOMAIN built.files THEN built.files[p] ELSE head.tree[p]]
  <2>1. r \in Revisions /\ FreshFixtures \in LocalFixtures \union {FreshFixtures}
        /\ KnownPath(path)
    BY DEF LifeInv, TypeInv, TreeOK, FileOK
  <2>2. Verified(r, head.tree)
    BY DEF IInv, CIInv
  <2>3. /\ built.ok /\ gitDiff(head.tree, files)
        /\ VerifyMetricContract(src.metrics, src.makefile.version, FreshFixtures)
    BY <2>2 DEF Verified, contractsVerify
  <2>4. path \in DOMAIN built.files
    <3>1. built = Generated(src, FreshFixtures)
      BY <2>1 DEF Build
    <3> HIDE DEF built
    <3>2. Succeeds(src, FreshFixtures)
      BY <2>1, <2>3, <3>1, GeneratedKnown
    <3>3. AllEmitted(src, FreshFixtures, built.files)
      BY <2>1, <3>1, <3>2, GeneratedKnown
    <3>4. path[1] # "grafana"
      OBVIOUS
    <3>5. Covered(src, FreshFixtures, path)
      BY <2>1, <3>2, <3>4, PathsCovered, Zenon
    <3> QED BY <3>3, <3>5 DEF AllEmitted, Covered
  <2>5. head.tree[path] = built.files[path]
    <3>1. files[path] = built.files[path]
      BY <2>4
    <3>2. files[path] = head.tree[path]
      BY <2>3 DEF gitDiff
    <3> QED BY <3>1, <3>2
  <2>6. built.files[path] = DocOf(src, FreshFixtures, path)
    BY <2>1, <2>4, BuildKnown
  <2>7. head.tree[path] = renderMatrix(src.metrics, src.makefile.version, FreshFixtures)
    BY <2>5, <2>6 DEF DocOf
  <2> HIDE DEF built, files
  <2> QED BY <2>1, <2>3, <2>7, RowsShown
<1> QED BY <1>1, VerdictsHold, LifeHolds, PTL

\* A scan CI looked at is one of those the scanner may answer.
LEMMA ScansKnown == Spec => [](ci.scan \subseteq Scans)
<1>1. Init => ci.scan \subseteq Scans
  BY DEF Init, NoResult
<1>2. ci.scan \subseteq Scans /\ [Next]_vars => (ci.scan \subseteq Scans)'
  <2> SUFFICES ASSUME ci.scan \subseteq Scans, [Next]_vars PROVE ci'.scan \subseteq Scans
    OBVIOUS
  <2>1. CASE ci' = ci
    BY <2>1
  <2>2. ASSUME NEW everything \in BOOLEAN, Push(everything) PROVE ci'.scan \subseteq Scans
    <3>1. \/ ci' = NoResult
          \/ \E scan \in Scans : ci' = [passed |-> govulncheck(scan, Ignored).code = 0, scan |-> {scan}]
      <4> DEFINE tracked == [path \in IF everything THEN DOMAIN tree
                                      ELSE DOMAIN tree \intersect DOMAIN head.tree |-> tree[path]]
      <4>1. ci' \in IF Verified(source, tracked)
                    THEN {[passed |-> govulncheck(scan, Ignored).code = 0, scan |-> {scan}] : scan \in Scans}
                    ELSE {NoResult}
        BY <2>2 DEF Push
      <4> HIDE DEF tracked
      <4> QED BY <4>1
    <3> QED BY <3>1 DEF NoResult
  <2> QED
    BY <2>1, <2>2
    DEF Next, Edit, Capture, StartGenerate, RunCommand, WriteFile, Interrupt, RestoreFile,
        RemoveFile, Verify, vars
<1> QED BY <1>1, <1>2, PTL DEF Spec

Shown(printed) == {line.id : line \in {l \in printed : l.kind = "header"}}

\* The traces left by the filter show identifiers asked for and no other.
LEMMA TracesShown ==
    ASSUME NEW lines, IsList(lines), NEW ids, ~filterTraces(lines, ids).failed,
           filterTraces(lines, ids).printed # {}
    PROVE  LET shown == Shown(filterTraces(lines, ids).printed)
           IN  shown # {} /\ shown \subseteq ids
<1> DEFINE Heads(h, i) == /\ lines[h].kind = "header" /\ h <= i
                          /\ \A j \in h + 1 .. i : lines[j].kind = "text"
           longs  == {i \in DOMAIN lines : lines[i].kind = "long"}
           Flushed(i) == \/ longs = {}
                         \/ /\ \A l \in longs : i < l
                            /\ \E j \in DOMAIN lines :
                                   /\ i < j /\ lines[j].kind \in {"header", "summary"}
                                   /\ \A l \in longs : j < l
           printed == filterTraces(lines, ids).printed
<1>1. /\ filterTraces(lines, ids).failed = (longs # {})
      /\ printed = {lines[i] : i \in {k \in DOMAIN lines : Flushed(k) /\ \E h \in 1 .. k :
                                         Heads(h, k) /\ lines[h].id \in ids}}
  BY DEF filterTraces
<1>2. longs = {}
  BY <1>1
<1>3. DOMAIN lines \subseteq Nat /\ \A i \in DOMAIN lines : 1 .. i \subseteq DOMAIN lines
  BY DEF IsList
<1>4. \E h \in DOMAIN lines : lines[h] \in printed /\ lines[h].kind = "header" /\ lines[h].id \in ids
  <2>1. PICK i \in DOMAIN lines : \E h \in 1 .. i : Heads(h, i) /\ lines[h].id \in ids
    BY <1>1
  <2>2. PICK h \in 1 .. i : Heads(h, i) /\ lines[h].id \in ids
    BY <2>1
  <2>3. h \in DOMAIN lines /\ h \in Nat /\ h \in 1 .. h
    BY <1>3
  <2>4. h + 1 .. h = {}
    BY <2>3
  <2>5. Heads(h, h)
    BY <2>2, <2>3, <2>4
  <2>6. lines[h] \in printed
    BY <1>1, <1>2, <2>2, <2>3, <2>5
  <2> QED BY <2>2, <2>3, <2>6
<1>5. ASSUME NEW line \in printed, line.kind = "header" PROVE line.id \in ids
  <2>1. PICK i \in DOMAIN lines : line = lines[i] /\ \E h \in 1 .. i : Heads(h, i) /\ lines[h].id \in ids
    BY <1>1
  <2>2. PICK h \in 1 .. i : Heads(h, i) /\ lines[h].id \in ids
    BY <2>1
  <2>3. h = i
    <3>1. h \in Int /\ i \in Int /\ h <= i
      BY <1>3
    <3>2. CASE h < i
      <4>1. i \in h + 1 .. i
        BY <3>1, <3>2
      <4>2. lines[i].kind = "text"
        BY <2>2, <4>1
      <4> QED BY <1>5, <2>1, <4>2
    <3> QED BY <3>1, <3>2
  <2> QED BY <2>1, <2>2, <2>3
<1> HIDE DEF printed
<1>6. Shown(printed) # {}
  BY <1>4 DEF Shown
<1>7. Shown(printed) \subseteq ids
  BY <1>5 DEF Shown
<1> QED BY <1>6, <1>7 DEF printed

LEMMA TracesCode ==
    ASSUME NEW scan, NEW ids, NEW code, NEW unmatched, scan.traces.rc \in {0, 3},
           Traces(scan, ids, code, unmatched).code = 1, unmatched # 1
    PROVE  /\ code = 1
           /\ Traces(scan, ids, code, unmatched).printed = filterTraces(scan.traces.lines, ids).printed
           /\ ~filterTraces(scan.traces.lines, ids).failed
           /\ filterTraces(scan.traces.lines, ids).printed # {}
<1> DEFINE filtered == filterTraces(scan.traces.lines, ids)
           run      == runGovulncheck(scan.traces)
<1>1. run.ok
  <2>1. CASE ~run.ok
    <3>1. Traces(scan, ids, code, unmatched).code = run.code
      BY <2>1 DEF Traces
    <3>2. run.code = 2
      BY <2>1 DEF runGovulncheck
    <3> QED BY <3>1, <3>2
  <2> QED BY <2>1
<1> HIDE DEF filtered, run
<1>2. Traces(scan, ids, code, unmatched)
          = IF filtered.failed THEN [code |-> 2, printed |-> filtered.printed]
            ELSE IF filtered.printed = {}
            THEN [code |-> unmatched, printed |-> ToSet(scan.traces.lines)]
            ELSE [code |-> code, printed |-> filtered.printed]
  BY <1>1 DEF Traces, filtered, run
<1>3. ~filtered.failed /\ filtered.printed # {}
  BY <1>2
<1>4. Traces(scan, ids, code, unmatched) = [code |-> code, printed |-> filtered.printed]
  BY <1>2, <1>3
<1>5. code = 1 /\ Traces(scan, ids, code, unmatched).printed = filtered.printed
  BY <1>4
<1> QED BY <1>3, <1>5 DEF filtered

\* Exit code 1 after two runs that answered says what was found.
LEMMA FoundCode ==
    ASSUME NEW scan \in Scans, govulncheck(scan, Ignored).code = 1,
           scan.json.rc \in {0, 3}, scan.traces.rc \in {0, 3}
    PROVE  LET shown == Shown(govulncheck(scan, Ignored).printed)
           IN  shown # {} /\ shown \subseteq scan.json.found \ Ignored
<1> DEFINE unignored == unignoredIDs(scan.json.found, Ignored)
<1>1. scan.readable
  BY DEF govulncheck
<1>2. runGovulncheck(scan.json).ok
  <2>1. CASE ~runGovulncheck(scan.json).ok
    <3>1. govulncheck(scan, Ignored).code = runGovulncheck(scan.json).code
      BY <1>1, <2>1 DEF govulncheck
    <3>2. runGovulncheck(scan.json).code = 2
      BY <2>1 DEF runGovulncheck
    <3> QED BY <3>1, <3>2
  <2> QED BY <2>1
<1>3. scan.json.parses
  BY <1>1, <1>2 DEF govulncheck
<1>4. unignored # {}
  <2>1. CASE unignored = {}
    <3>1. handleIgnoredFindings(scan).code = 1
      BY <1>1, <1>2, <1>3, <2>1 DEF govulncheck
    <3>2. Traces(scan, scan.json.found, 0, 0).code = 1
      BY <3>1 DEF handleIgnoredFindings
    <3>3. 0 = 1
      BY <3>2, TracesCode
    <3> QED BY <3>3
  <2> QED BY <2>1
<1>5. govulncheck(scan, Ignored) = Traces(scan, unignored, 1, 2)
  BY <1>1, <1>2, <1>3, <1>4 DEF govulncheck, handleUnignoredFindings
<1> HIDE DEF unignored
<1>6. /\ govulncheck(scan, Ignored).printed = filterTraces(scan.traces.lines, unignored).printed
      /\ ~filterTraces(scan.traces.lines, unignored).failed
      /\ filterTraces(scan.traces.lines, unignored).printed # {}
  BY <1>5, TracesCode
<1>7. IsList(scan.traces.lines)
  BY RepositoryAssumption
<1>8. unignored = scan.json.found \ Ignored
  BY DEF unignored, unignoredIDs
<1> DEFINE lines == scan.traces.lines
<1> HIDE DEF lines
<1>9. /\ Shown(filterTraces(lines, unignored).printed) # {}
      /\ Shown(filterTraces(lines, unignored).printed) \subseteq unignored
  <2>1. /\ IsList(lines) /\ ~filterTraces(lines, unignored).failed
        /\ filterTraces(lines, unignored).printed # {}
    BY <1>6, <1>7 DEF lines
  <2> QED BY <2>1, TracesShown
<1> QED BY <1>6, <1>8, <1>9 DEF lines

\* CI passes only after a clean scan, and what the wrapper shows of a scan that
\* is not clean are traces of the identifiers found and not ignored.
THEOREM VulnerabilitiesGated == Spec => []VulnerabilitiesGate
<1>1. IInv /\ ci.scan \subseteq Scans => VulnerabilitiesGate
  BY CleanCode, FoundCode DEF IInv, ScanInv, VulnerabilitiesGate, Shown
<1> QED BY <1>1, VerdictsHold, ScansKnown, PTL
=============================================================================
