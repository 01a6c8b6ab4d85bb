------------------------------ MODULE Repository -------------------------------
(***************************************************************************)
(* The life of the repository: a working tree whose contracts are edited,  *)
(* `make generate` writing the generated files one after the other from    *)
(* contracts it reads command by command, runs that fail or are killed in  *)
(* the middle, generated files restored or removed by hand, `contracts     *)
(* verify-repository`, and pushes that CI checks with `make verify`.       *)
(***************************************************************************)
EXTENDS RepositoryCheck, GovulnWrapper

CONSTANTS
    Contents,        \* function: the source tree of each revision of the sources
    Base,            \* the revision the repository starts with
    FreshFixtures,   \* what a capture of the metrics yields
    LocalFixtures,   \* what fixtures/captured may hold on a machine
    Scans,           \* what govulncheck may answer
    Ignored,         \* the identifiers .govulnignore lists
    ByHand,          \* the generated files a person restores or removes
    MaxEdits, MaxMishaps, MaxPushes   \* bounds of the model

VARIABLES
    source,     \* the revision of the sources in the working tree
    fixtures,   \* the captured fixtures of the machine, not tracked by git
    tree,       \* the generated files of the working tree
    head,       \* the last commit: its revision and the generated files it tracks
    job,        \* the run of `make generate` under way
    outcome,    \* how the last run of it ended, while the sources stay the same
    verdict,    \* what verify-repository says of the working tree
    ci,         \* what CI says of the last commit
    used        \* how often each bounded step was taken

vars == <<source, fixtures, tree, head, job, outcome, verdict, ci, used>>

Revisions == DOMAIN Contents

IsList(s) == s \in Seq(ToSet(s))

\* The Makefile of every revision generates the alert files the check lists,
\* the fixtures of a supported prefix are named after no other prefix, and what
\* is a list in the code is a sequence.
ASSUME RepositoryAssumption ==
    /\ Base \in Revisions
    /\ RecordingFile \notin AlertFiles
    /\ \A r \in Revisions :
           LET src       == Contents[r]
               supported == ToSet(src.metrics.supported)
           IN  /\ src.makefile.alerts \in Seq(AlertFiles) /\ ToSet(src.makefile.alerts) = AlertFiles
               /\ IsList(src.makefile.dashboards) /\ IsList(src.metrics.supported)
               /\ \A f \in DOMAIN src.dashboards : IsList(src.dashboards[f].panels)
               /\ \A prefix, other \in supported :
                      other \in NamedIn[prefix \o "-prefix"] <=> other = prefix
    /\ \A scan \in Scans : IsList(scan.traces.lines)

Idle == [active |-> FALSE]
NoResult == [passed |-> FALSE, scan |-> {}]

------------------------------------------------------------------------------
(* A run of `make generate` from nothing, and CI. *)

\* All writes of the commands up to the first that fails; of several writes of
\* a file the last one stays.
Generated(src, captured) ==
    LET commands == Commands(src)
        results  == {[at |-> i, result |-> Outcome(src, captured, commands[i])] :
                         i \in DOMAIN commands}
        ran      == {s \in results : \A t \in results : t.at <= s.at => t.result.ok}
        written  == UNION {{[at |-> s.at, path |-> w.path, doc |-> w.doc] :
                               w \in ToSet(s.result.writes)} : s \in ran}
        LastWrite(path) == CHOOSE w \in written :
                               /\ w.path = path
                               /\ \A v \in written : v.path = path => v.at <= w.at
    IN  [ok    |-> ran = results,
         files |-> [path \in {w.path : w \in written} |-> LastWrite(path).doc]]

Build == [r \in Revisions |->
             [captured \in LocalFixtures \union {FreshFixtures} |-> Generated(Contents[r], captured)]]

\* contracts-verify: the checks of single contracts, then of the repository.
contractsVerify(src, captured, files) ==
    /\ VerifyMetricContract(src.metrics, src.makefile.version, captured)
    /\ \A file \in ToSet(src.makefile.alerts) :
           /\ file \in DOMAIN src.alerts
           /\ VerifyAlertContract(src.alerts[file], src.makefile.severity[file], src.runbooks)
           /\ VerifyStreamContract(src.streams, src.alerts[file],
                                   {src.dashboards[d] : d \in src.streamDashboards})
    /\ \A file \in ToSet(src.makefile.dashboards) :
           file \in DOMAIN src.dashboards /\ VerifyDashboardContract(src.dashboards[file])
    /\ VerifyRepository(src, files)

\* git diff compares tracked files only: a new file is no difference.
gitDiff(tracked, files) ==
    \A path \in DOMAIN tracked : path \in DOMAIN files /\ files[path] = tracked[path]

\* Mutant: the checkout is verified as it is, without generating first.
Verified_NoGenerate(r, tracked) == contractsVerify(Contents[r], FreshFixtures, tracked)

\* What `make verify` requires of a checkout besides the scan.
Verified(r, tracked) ==
    LET generated == Build[r][FreshFixtures]
        files     == [path \in DOMAIN generated.files \union DOMAIN tracked |->
                         IF path \in DOMAIN generated.files THEN generated.files[path] ELSE tracked[path]]
    IN  /\ generated.ok
        /\ gitDiff(tracked, files)
        /\ contractsVerify(Contents[r], FreshFixtures, files)

------------------------------------------------------------------------------
(* The working tree. *)

Init ==
    /\ source = Base
    /\ fixtures \in LocalFixtures
    /\ tree = Build[Base][FreshFixtures].files
    /\ head = [source |-> Base, tree |-> tree]
    /\ job = Idle
    /\ outcome = "none"
    /\ verdict = "none"
    /\ ci = NoResult
    /\ used = [edits |-> 0, mishaps |-> 0, pushes |-> 0]

\* The model ends with the last push.
Open == used.pushes < MaxPushes

Count(what, bound) == used[what] < bound /\ used' = [used EXCEPT ![what] = @ + 1]

\* Contracts can change while a run is under way: a command reads its own
\* when it starts, so such a run mixes revisions.
Edit(r) ==
    /\ Open
    /\ r # source
    /\ Count("edits", MaxEdits)
    /\ source' = r
    /\ job' = IF job.active THEN [job EXCEPT !.mixed = TRUE] ELSE job
    /\ outcome' = "none" /\ verdict' = "none"
    /\ UNCHANGED <<fixtures, tree, head, ci>>

\* fixtures capture replaces what an older capture left.
Capture ==
    /\ Open
    /\ fixtures # FreshFixtures /\ ~job.active
    /\ fixtures' = FreshFixtures
    /\ outcome' = "none"
    /\ UNCHANGED <<source, tree, head, job, verdict, ci, used>>

\* make reads its Makefile once.
StartGenerate ==
    /\ Open
    /\ ~job.active /\ outcome = "none"
    /\ job' = [active |-> TRUE, commands |-> Commands(Contents[source]), pending |-> << >>, mixed |-> FALSE]
    /\ UNCHANGED <<source, fixtures, tree, head, outcome, verdict, ci, used>>

\* A command checks its contract and, if it refuses it, make stops.
RunCommand ==
    /\ Open
    /\ job.active /\ job.pending = << >> /\ job.commands # << >>
    /\ LET result == Outcome(Contents[source], fixtures, Head(job.commands)) IN
       \/ /\ result.ok
          /\ job' = [job EXCEPT !.commands = Tail(@), !.pending = result.writes]
          /\ UNCHANGED outcome
       \/ /\ ~result.ok
          /\ job' = Idle /\ outcome' = "failed"
    /\ UNCHANGED <<source, fixtures, tree, head, verdict, ci, used>>

\* The files of a command are written in place, one after the other.
WriteFile ==
    /\ Open
    /\ job.active /\ job.pending # << >>
    /\ tree' = writeFile(tree, Head(job.pending).path, Head(job.pending).doc)
    /\ LET rest == Tail(job.pending) IN
       IF rest = << >> /\ job.commands = << >>
       THEN job' = Idle /\ outcome' = IF job.mixed THEN "mixed" ELSE "done"
       ELSE job' = [job EXCEPT !.pending = rest] /\ UNCHANGED outcome
    /\ verdict' = "none"
    /\ UNCHANGED <<source, fixtures, head, ci, used>>

\* A run is killed: the file being written may be left truncated.
Interrupt ==
    /\ Open
    /\ job.active
    /\ Count("mishaps", MaxMishaps)
    /\ job' = Idle /\ outcome' = "interrupted"
    /\ \/ UNCHANGED <<tree, verdict>>
       \/ /\ job.pending # << >>
          /\ tree' = writeFile(tree, Head(job.pending).path, Empty)
          /\ verdict' = "none"
    /\ UNCHANGED <<source, fixtures, head, ci>>

\* One generated file is taken from the last commit, as in resolving a merge.
RestoreFile(path) ==
    /\ Open
    /\ ~job.active
    /\ ~(path \in DOMAIN tree /\ tree[path] = head.tree[path])
    /\ Count("mishaps", MaxMishaps)
    /\ tree' = writeFile(tree, path, head.tree[path])
    /\ outcome' = "none" /\ verdict' = "none"
    /\ UNCHANGED <<source, fixtures, head, job, ci>>

\* The commands never delete what an older revision had them write.
RemoveFile(path) ==
    /\ Open
    /\ ~job.active
    /\ Count("mishaps", MaxMishaps)
    /\ tree' = [p \in DOMAIN tree \ {path} |-> tree[p]]
    /\ outcome' = "none" /\ verdict' = "none"
    /\ UNCHANGED <<source, fixtures, head, job, ci>>

Verify ==
    /\ Open
    /\ ~job.active /\ verdict = "none"
    /\ verdict' = IF VerifyRepository(Contents[source], tree) THEN "accepted" ELSE "rejected"
    /\ UNCHANGED <<source, fixtures, tree, head, job, outcome, ci, used>>

\* A commit takes all files or only those git tracks already; CI checks it.
Push(everything) ==
    LET paths   == IF everything THEN DOMAIN tree ELSE DOMAIN tree \intersect DOMAIN head.tree
        tracked == [path \in paths |-> tree[path]]
    IN  /\ ~job.active
        /\ head # [source |-> source, tree |-> tracked]
        /\ Count("pushes", MaxPushes)
        /\ head' = [source |-> source, tree |-> tracked]
        /\ ci' \in IF Verified(source, tracked)
                   THEN {[passed |-> govulncheck(scan, Ignored).code = 0, scan |-> {scan}] : scan \in Scans}
                   ELSE {NoResult}
        /\ UNCHANGED <<source, fixtures, tree, job, outcome, verdict>>

Next ==
    \/ \E r \in Revisions : Edit(r)
    \/ Capture
    \/ StartGenerate
    \/ RunCommand
    \/ WriteFile
    \/ Interrupt
    \/ \E path \in DOMAIN head.tree \intersect ByHand : RestoreFile(path)
    \/ \E path \in DOMAIN tree \intersect ByHand : RemoveFile(path)
    \/ Verify
    \/ \E everything \in BOOLEAN : Push(everything)

Spec == Init /\ [][Next]_vars

------------------------------------------------------------------------------
(* Properties of an accepted working tree. *)

\* The rules of a profile work without those of another: they read raw metrics
\* of its prefix only, carry its prefix as a label, and every recording rule an
\* alert reads is in the profile's own file, natively and for the operator.
\* Profiles are written at different times, so they can be of different
\* contracts (rules/prometheus.go:92-167, repository.go:1161-1275).
ProfilesSelfContained ==
    verdict = "accepted" =>
        \A surface \in {"native", "operator"}, profile \in ToSet(Profiles) :
            LET Rules(file) == ToSet(rulesOf(tree, <<surface, profile, file>>))
                prefix      == prefixOf(profile, "vault")
            IN  /\ \A file \in Files : \A r \in Rules(file) :
                       /\ r.labels["source_prefix"] = prefix
                       /\ \A n \in r.expr.metrics : n.prefix \in {"vault", "openbao"} => n.prefix = prefix
                /\ \A file \in AlertFiles : \A r \in Rules(file) :
                       r.alert # "" =>
                           \A n \in recordingRuleReferences(r.expr) :
                               \E q \in Rules(RecordingFile) : q.record = n.id

\* The alerts on every surface of the default and the vault profile are those
\* of the contracts, and the dashboards ask what the contracts ask: none is
\* missing, and none is left from a contract renamed, moved or removed
\* (repository.go:253-303, 756-801).
ArtifactsMatchContracts ==
    verdict = "accepted" =>
        /\ \A surface \in Surfaces, profile \in {"default", "vault"} :
               UNION {Names(rulesOf(tree, <<surface, profile, file>>), "alert") : file \in AlertFiles}
                   = ExpectedAlerts(Contents[source], IF surface = "loki" THEN "loki" ELSE "prometheus")
        /\ LET Asked(d)   == {<<p.title, p.targets[1].expr>> : p \in ToSet(d.panels)}
               Asks(c)    == {<<p.title, p.expression>> : p \in ToSet(c.panels)}
               contracts  == Contents[source].dashboards
           IN  {<<path[3], Asked(tree[path])>> : path \in dashboardPaths(tree)}
                   = {<<contracts[f].uid, Asks(contracts[f])>> : f \in DOMAIN contracts}

\* A file a single killed run left truncated is not accepted, though an empty
\* YAML file parses.  The check never looks into the matrix, nor compares the
\* Loki rules of the openbao profile with anything; two kills in a row may leave
\* the Loki rules of default and vault equally empty (prometheus.go:1012-1028).
TornFilesRejected ==
    verdict = "accepted" /\ used.mishaps <= 1 =>
        \A path \in DOMAIN tree :
            tree[path] = Empty => path[1] = "docs" \/ (path[1] = "loki" /\ path[2] = "openbao")

------------------------------------------------------------------------------
(* Properties of runs and merges. *)

\* A run that ends leaves the rules and the matrix it would leave in an empty
\* tree, whatever runs failed or were killed before it and whatever was edited
\* by hand: no rule of an older contract survives in a file.  Of dashboards it
\* renews those it writes and deletes none (Makefile generate, prometheus.go:1012).
RerunForgetsHistory ==
    outcome = "done" =>
        LET built == Build[source][fixtures].files IN
        /\ \A path \in DOMAIN built : path \in DOMAIN tree /\ tree[path] = built[path]
        /\ \A path \in DOMAIN tree : path[1] # "grafana" => path \in DOMAIN built

\* What CI passes holds no stale output of `make generate`, although local
\* fixtures are untracked and may be older, and no dashboard without contract.
MergedIsCurrent ==
    ci.passed =>
        LET src   == Contents[head.source]
            built == Build[head.source][FreshFixtures].files
        IN  /\ \A path \in DOMAIN head.tree \intersect DOMAIN built : head.tree[path] = built[path]
            /\ \A path \in dashboardPaths(head.tree) :
                   \E f \in DOMAIN src.dashboards : src.dashboards[f].uid = path[3]

\* The published matrix shows every required metric in the smoke profile of
\* every supported prefix, although coverage entries can call it optional there
\* (compatibility/matrix.go:332-343, contracts/metrics.go:108-126).
RequiredMetricsShown ==
    ci.passed =>
        \A path \in DOMAIN head.tree : path[1] = "docs" =>
            \A row \in head.tree[path].rows :
                row.required /\ row.profile \in RequiredProfiles(Contents[head.source].metrics) =>
                    row.status \in {"observed", "variable"}

\* A scan that ran to its end and found nothing but ignored identifiers.
OnlyIgnored(scan) ==
    /\ scan.readable
    /\ scan.json.started /\ scan.json.rc \in {0, 3} /\ scan.json.parses
    /\ scan.json.found \subseteq Ignored

\* CI passes only after such a scan; when the wrapper says what was found, it
\* shows the traces of the identifiers not ignored and of no other, though they
\* are from a second run (govulncheck_wrapper/main.go:95-174).
VulnerabilitiesGate ==
    \A scan \in ci.scan :
        LET result == govulncheck(scan, Ignored)
            shown  == {line.id : line \in {l \in result.printed : l.kind = "header"}}
        IN  /\ ci.passed => OnlyIgnored(scan)
            /\ result.code = 1 /\ scan.json.rc \in {0, 3} /\ scan.traces.rc \in {0, 3} =>
                   shown # {} /\ shown \subseteq scan.json.found \ Ignored
=============================================================================
