# Formal models of openbao-observability

TLA+ models of the stateful parts of this repository, the TLC runs that check
them on small instances, and proofs of the properties that hold for every
instance. Run from this directory:

    tlc -workers 2 -config MCSeal.cfg SealLifecycle       # a run (see "Runs")
    tlapm CaptureRunProofs.tla                            # the proofs
    tlapm SealLifecycleProofs.tla
    tlapm ReleaseBundleProofs.tla
    tlapm RepositoryProofs.tla
    tlapm ArchiveHealthProofs.tla
    tlapm ScenarioProofs.tla
    tlapm RecordingRulesProofs.tla

## 1. The system

The repository is a Go command (`cmd/openbao-observability`) around a set of
contracts: YAML records of the metrics, log streams, alerts and dashboards an
OpenBao deployment should have. From the contracts it generates Prometheus
rules and Grafana dashboards; against real servers it captures *fixtures*,
which tell whether the contracts describe what OpenBao does; and it ships a
small exporter as an example of the audit archive health signal.

| Component | Source | State | Operations | What makes it correct |
|---|---|---|---|---|
| Fixture capture | `internal/fixtures/capture.go`, `util.go` | Docker containers, one network, temp dirs, the lists of what to remove, fixture files | `Capture`: two dev servers, a Raft cluster with Postgres, the seal fixture; deferred cleanup | nothing is left behind; files of one run only; a new run works after a failed or killed one |
| Seal lifecycle | `internal/fixtures/seal_lifecycle.go` | one server's seal state, its telemetry sink, five pairs of files | poll, settle, scrape, write, init/unseal/seal/restart; verify | metrics files show the state their phase is about |
| Raft topology | `capture.go`, `raft.go` | membership, voters, autopilot | waits and samples | samples agree with one another |
| Read consistency | `release_checks.go` | index of the replica | conditional reads, fallbacks | each fallback answers as its header asks |
| Scenario | `scenario.go` | namespaces, roles, leases, report | about 150 API operations, expected failures | the report says what happened; no lease outlives it |
| Verification | `verify.go`, `promtext` | none (reads files) | checks of the fixture directory | accepts exactly complete, coherent captures |
| Archive exporter | `examples/audit-archive-health/exporter` | none but the status file | scrape | a broken writer is not hidden |
| Archive alerts | `contracts/alerts/critical.yaml` | pending times and range vectors in Prometheus | rule evaluation | a fault is reported, recovery clears it, no false alarm |
| Recording rules | `internal/rules/prometheus.go`, `storage_pressure.go` | none here; in Prometheus the samples of a round | about 120 expressions evaluated in order | a record is the state of its node, of this round, counted once |
| Release bundle | `internal/release` | temp file, archive, checksums | collect, tar, rename | output is complete or absent |
| Generation | `internal/rules`, `internal/dashboards/grafana.go`, `internal/compatibility`, `Makefile` | the files under `generated/` and the matrix, written in place | one command per contract, profile and surface | a run's output depends on its sources only |
| Contracts and `verify-repository` | `internal/contracts` | none (reads the working tree) | load and validate contracts; compare generated files with them and with each other | accepts exactly trees whose files work together and are the contracts' |
| CI | `.github/workflows/ci.yml`, `Makefile` | the last commit | capture, `make verify`, scan | what it merges is current |
| Vulnerability wrapper | `hack/govulncheck_wrapper` | none | classify findings, filter traces | an exception hides only its own finding |
| Query validation, docs checks, metric parser | `internal/dashboards/validate.go`, `internal/docs`, `internal/promtext` | none | requests, scans | not modelled |
| Website, deployment examples | `website`, `examples` | none | configuration, static assets | not modelled |

**How they interact.** The capture drives Docker and the OpenBao HTTP API and
calls the scenario in a container; it shares with verification only the files of
the output directory. The exporter shares the status file with the archive
pipeline, and Prometheus sees nothing of either but the samples of its scrapes.
Contracts, generation and verification are separate invocations that share files: a
person edits the first, `make generate` reads them command by command, and
`verify-repository` and CI look at what is on disk afterwards. The recording rules are
evaluated by a Prometheus whose targets change under it.

**What is hard.** Docker names are fixed per OpenBao version, so runs
meet what other runs left or are doing; the only cleanup is a deferred function,
which a kill skips (`main` installs no signal handler); a step may fail after it
created something; telemetry outlives the state it describes; two files of a
pair are sampled at different times; a read error becomes an ordinary sample,
and a counter that is zero for one scrape looks like a reset; gauges of a state a node
left linger; generated files are written in place, by many commands, from contracts that
may change in between, and nothing deletes what an older contract produced. The full list, each
at its line, is in `PROJECT.json` under `hazards`.

## 2. The models

### CaptureRun: owners of Docker resources

One process per invocation. `pc` is the step of `Capture` it is at; `containers`,
`networks`, `tempDirs` are the fields of `captureRun`; `status`, `network`, `dirs`
are Docker and the host. Who started a container, created the network or made a
directory is kept in `owner`, `network` and `dirs`: a process, `stale` (of a run
that was killed) or `leaked` (of a run that finished its cleanup). Fixture files
are kept per step that writes them, as the set of runs whose containers the
files were read from.

* One action per step in the order of the code (`CapturePrefix`,
  `PrepareRaftNetwork`, ..., `CaptureSealLifecycle`); `rm -f` followed by an
  append to the list is one step because the run cannot fail between them. A
  kill between the two differs in nothing a later run can see: the lists die
  with the run.
* `Fail` returns from any step with an error, forced when Docker refuses or a
  needed container is not running (every wait has a deadline), otherwise within
  `MaxFailures`; a step that fails may have written some of its files.
  `RunFailsAfterCreate` is `docker run` creating the container but failing to
  start it. `Abort` is the jump into the deferred cleanup.
* `Crash` is a kill: no defer runs. `ContainerExit` is any container exiting.
* Abstracted: what is executed in the containers, ports, configuration files.

### SealLifecycle: telemetry that outlives its state

The capture and one server. The server's gauge loop sets the seal gauge at most
`Period` ticks after its last round, while sealed only if `refreshes` (as 2.7 does;
chosen at the start, so that both kinds of version are checked together);
the sink drops a value after `Retention` ticks. `Poll` is `awaitFixture`,
`CaptureMetrics` and `WriteStatus` the two files of a phase, `Drive` the call
between two phases. `Fail`, `Kill` and `ServerExit` strike anywhere, and the next
run writes into the same directory. `CheckSealPhase` is the verifier's predicate.

### ArchiveHealth: from status file to alert

The pipeline (external), the exporter's `loadStatus` and `Collect`, and the two
archive alerts over a history of `Window` scrapes. A tick is a scrape and a rule
evaluation; between ticks anything may happen to the file any number of times.
`deployed` is the configuration: the labels of the flags, those the status file sets, and
those of the alert's expectation. `Increased` is `increase() > 0` with Prometheus' treatment of resets. Ghost
variables keep what the alert ought to know: how long the archive has been
unhealthy (`sick`), whether a counter rose and how long ago (`debt`), how long ago
the last failure was (`quiet`).

### Scenario: a script of calls against a server that remembers

`Script` is the sequence of calls of `run`, put together from one definition per
function of `scenario.go`. Each call is a record of what it does to the server: it
enables a mount, writes a role's statements, issues, looks up, renews or revokes a
lease, or is expected to fail; calls that change nothing another call depends on
(KV, transit, identity, certificates, logins) are lumped into one step per function.
`Denied`, `Broken` and `Effect` are the server's side: an answer that is not
repeated (4xx), one that is (5xx), and the change. `Call`, `Succeeded` and `Failed`
are the runner's: what is reported and which call comes next. `LoseCall` loses the
request or the answer, after which the API client repeats it (`MaxRetries`); a lost
answer to an issue call leaves a lease nobody knows (`orphan`). `writeReport`
replaces the report file after success and after errors, `Accepted` is
`checkRaftScenarioReport`. Mounts, roles and leases stay from run to run. Tokens of
logins are left out; they expire as the modelled orphans do. `Expire` assumes that
the server revokes an expired lease as soon as the database and the role allow it.

### ReleaseBundle: what a reader of the release directory sees

`make release-artifacts` as a process: `Bundle`, then `Checksums`. `tree` is the
working tree, `dist` the release directory; a file there is a body and whether it was
closed. `IncludeFile`, `IncludeDir` and `WalkFile` collect entries (path and size at the
stat); `WriteEntry` copies what the file holds by then, and the tar writer refuses a
body longer or shorter than its header (`BadCopy`, `Short`). `Rename` publishes.
`ListAssets` and `HashAsset` are the checksums. `Fail` is every error the code meets by
itself (`Refused`), `Break` one of the file system, both through the deferred `Remove`;
`Kill` runs no defer; `Edit` changes the tree any time. Ghosts: paths edited during a
run (`touched`), and whether the run was `alone`. A file is read in one piece, edits make
no links, directories stay, and a checksum stands for the content it is of.

`AtomicPublish` is what the bundle promises: one variable for the archive, absent or
whole, that a run replaces in one step and at most once. `ReleaseBundle` implements it
(`PublishesAtomically`, with `dist[archive]` for the asset and the step of a run
for its fate).

### RecordingRules: what Prometheus records of a changing cluster

The group `openbao.recording` with every rule of `buildPrometheusRule` and
`storagePressureRules`, each as the vector its expression yields (`CoreRules`, ...,
`StoragePressureRules`; one operator per expression function of the code). The PromQL
they need is defined on sets of samples: aggregation by labels, `or`, `and on`,
one-to-one matching, `increase` with restarts, `clamp_min`. The name of a record is the pair
of what it names and its suffix; the two series of a summary are `part`s of one metric. `Scrape` replaces what one
target exposed, `Evaluate` runs the group in order: a rule that reads a record sees this
round's value only if the rule that writes it comes first. What targets expose is
external: seal gauges with and without a source, a lingering startup zero, a former
leader's backlog, counters that restart, indexes read one after the other. Labels are
abstracted to cluster and instance. The range of `deriv(record[5m])` is `recent`: what the
last `Rounds` evaluations recorded of backlogs, each sample with its age. The samples of a
node that lost the lead stay until they are too old, so the record of its net change goes
on as long as two of them are in range; `Deriv` is the least-squares slope of a
series, in thousandths a round. `led` is a history variable: which nodes led in those
rounds, with what backlog, taken from what they exposed. Every other range reaches back
one scrape.

### Contracts, Generators, RepositoryCheck, GovulnWrapper: the pure parts

`Contracts` is what the loaders accept and how expressions are rendered, interpolated
and checked for labels. An expression is a record of the metrics it reads, its matchers
and grouping labels, the variables it uses as a range, and whether the rest parses.
`Generators` is what each command writes (recording rules, alert rules for three surfaces,
dashboards, the matrix), and the commands of `make generate` in order. `RepositoryCheck`
is `VerifyRepository` with everything it calls, on a `tree`: a function from
`<<surface, profile, file>>` to contents. `GovulnWrapper` is the wrapper's exit code and
printed lines for each pair of answers of the scanner.

### Repository: contracts, generated files and CI

`source` is the revision of the contracts in the working tree, `tree` the generated
files, `head` the last commit. `StartGenerate`, `RunCommand` (reads the contract as it is
*now*, or stops on an error) and `WriteFile` are a run of `make generate`; `Edit` may come
in between; `Interrupt` kills it and may leave a truncated file. `RestoreFile` and
`RemoveFile` are a person resolving a merge. `Verify` is the verdict of
`verify-repository`, `Push` a commit (with or without new files) and what CI says of it:
generate on fresh fixtures, `git diff` of tracked files, the contract checks, the scan.
Local fixtures are not tracked and may be older. `Build` is a run from nothing.

## 3. Runs

| Run | Module, cfg | Question | Result |
|---|---|---|---|
| CaptureRetry | `CaptureRun`, `MCCaptureRetry` | failures and kills in any order, command run again: files of one run on success (`FreshOnSuccess`), every run ends, after a kill a rerun succeeds unless the network is `Held` (`RecoversUnlessHeld`) | holds |
| CaptureOverlap | `MCCaptureRun`, `MCCaptureOverlap` | two overlapping runs: leaks (`NoLeak`), clean host (`HostClean`) | holds |
| CaptureRegenerates | `CaptureRun`, `MCCaptureRegenerates` | `fixtures/README.md`: running the command again regenerates the fixtures | **violated** |
| Seal | `SealLifecycle`, `MCSeal` | no file shows a stale gauge (`NoStaleGauge`), success verifies (`CaptureVerifies`), the capture ends; for both kinds of version | holds |
| Archive | `MCArchiveHealth`, `MCArchive` | a lasting fault (`UnhealthyIsReported`), a single failure (`FailureIsReported`) and an outage (`OutageIsReported`) fire an alert, recovery clears both alerts (`RecoveryIsReported`) | holds |
| ArchiveFalseAlarm | `MCArchiveHealth`, `MCArchiveFalseAlarm` | the alert starts to fire only if the archive is or was failing | **violated** |
| Scenario | `Scenario`, `MCScenario` | an undisturbed run succeeds whatever was left (`SucceedsUndisturbed`), leases it knew are revoked (`LearnedLeasesRevoked`), the report is accepted exactly if the run succeeded (`ReportTellsOutcome`), orphans drain (`LeasesDrain`), runs end | holds |
| ReleaseOverlap | `MCReleaseBundle`, `MCReleaseOverlap` | two builds that overlap, fail, are killed, under edits: the archive is absent or whole (`PublishesAtomically`), exact but for edited files (`UntouchedFilesExact`), checksums are true (`ChecksumsExact`), temporary files have an owner (`NoLitter`), no build fails without a reason (`FailsForAReason`) | holds |
| ReleaseAssetsOnly | `MCReleaseBundle`, `MCReleaseAssetsOnly` | `docs/releases/0.2.3.md`: `checksums.txt` is about release assets | **violated** |
| RecordingRules | `MCRecordingRules`, `MCRecordingRules` | the seal state, backlog and latency are those of the node, the net change that of one leader, present or former (`SealStateOfTheNode`, `BacklogOfLeaders`, `LatencyOfTheNode`), sums are of this round (`CountOfThisRound`), mounts count once (`MountsCountedOnce`), values stay in range and series unique (`RecordsInRange`) | holds |
| RaftPeers | `MCRecordingRules`, `MCRaftPeers` | `docs/metrics/ha-raft-metrics.md`: without a peer gauge the peers are counted by `peer_id` | **violated** |
| Repository | `MCRepository`, `MCRepository` | an accepted tree has profiles that stand alone (`ProfilesSelfContained`), the contracts' alerts and dashboards (`ArtifactsMatchContracts`) and no torn file (`TornFilesRejected`); a run forgets what was before it (`RerunForgetsHistory`); a merged commit is current (`MergedIsCurrent`), shows required metrics (`RequiredMetricsShown`) and was scanned (`VulnerabilitiesGate`) | holds |

**The four violations.** (1) `prepareRaftNetwork` calls `network rm` before the stale
containers of a killed run are removed; Docker refuses, the error is ignored,
`network create` fails on the existing name and the run ends before
it would have removed those containers. Every later run does the same, until
somebody removes the containers by hand. `RecoversUnlessHeld` shows this is the only
state a kill leaves that a rerun does not get out of. (2) With `--enabled`,
`Collect` answers a failed read with both counters at 0. The next good read
restores them, `increase(...[15m])` counts the drop as a reset and is positive for
longer than the 10 minutes of `for`: one failed read raises a critical alert
on a healthy archive that has ever failed a delivery. (3) `checksumEntries` lists every
regular file of the release directory, the temporary file of a killed build too. It is
never removed, so every later `checksums.txt` lists a file that is not released (the
upload's `dist/release/*` does not match names that start with a dot). (4)
`raftPeerCountExpression` tries `count(autopilot_node_healthy)` before the commit indexes
the documents name. That gauge has one series per node and scraped target: when two
targets expose it (a leader and a former one whose gauge lingers), a cluster of two nodes
has four peers.

**Bounds.** Two Raft nodes (a leader and one other) are enough: the loops treat every
node after the first alike. Two invocations show every way one run can
interfere with another; symmetry of the invocations is sound because no
constant or property tells them apart, and `HostView` hides only the fixture files
and exit codes, which no step and neither invariant of that run reads. Two kills
and two failures let a rerun meet what a rerun left. `MaxPolls` = 3 instead
of 60 attempts: the limit is reached. `Retention` 5 and `Settle` 16 are the code's
seconds; `Period` 2 is the upper bound assumed of the server's loop.
In Scenario one repetition instead of two and two faults: a
call can be lost for good, and a fault can hit the run after a faulty one.
`Window` 4, `For` 2, `Stale` 3 keep the order 10 m < 15 m of the alert with two samples
to spare, which holds for scrape intervals up to 150 s; `MaxCount` 1 of each counter
lets a reset and a second, different counter meet. Two deployments: labels that agree
and labels only the file knows.
In ReleaseBundle two paths are enough for a file that is included twice and one that is
not, three contents for equal, shorter and longer copies; with two builds the second
finds what the first left or is in its way. Runs are symmetric, and so are the two
contents of one size.

In RecordingRules three targets: two nodes of a cluster, and a node of the same name in
another. `Focuses` names the families of metrics a behaviour exposes one at a time, which
is sound because no rule mixes families; rules whose metrics no family exposes are part of
the group and yield nothing, and share their operators with rules that do yield.
`Rounds` = 3: a former leader may have two samples left in range, which still give a
slope, or one, which does not, and a leader's slope may be over three.
`RulesView` leaves out the records, those of a current round follow from the rest of the
view, and between rounds the samples that are too old at the next evaluation.

In Repository `Contents` are 31 revisions: the base and one for each thing a loader,
generator or check can tell apart (an alert renamed, moved, doubled or removed; a raw
metric of either prefix; a forbidden label; a dashboard added, removed or not listed; a
recording rule with its only reader; a metric required in one profile, ...). `MaxEdits` = 1
leads from the base to any of them, before, during or after a run; `MaxMishaps` = 1 is a
kill, a restored or a removed file (`ByHand`: one file of each kind of check);
`MaxPushes` = 1 ends the behaviour. `Scans` are 13 pairs of answers of the scanner. All
but `TornFilesRejected` are meant for any number of mishaps; it says so itself, because
after *two* kills in a row the Loki rules of the default and of the vault profile may be
equally empty, which the check cannot see where no Loki alert is missed.

**Fairness.** `FairRetry` of CaptureRun asks that a started run goes on (every
wait has a deadline and the process is scheduled) and that an operator
runs the command again; no fairness is asked of success, only that no failure
beyond the bound occurs. SealLifecycle: the process and its timers run, and the
server's loop runs; booting is *not* fair. ArchiveHealth: scrapes go on. Scenario: a run
goes on, PostgreSQL comes back, expired leases are revoked when they can be.
ReleaseBundle, RecordingRules and Repository have no liveness: nobody has to run them.

**Deadlock** is checked in every run but those of ReleaseBundle, where everything may
be over (the builds have run and nobody edits), and Repository, which ends with the push.

## 4. Proofs

`CaptureRunProofs` proves for every set of invocations, every finite set of Raft
nodes and all bounds:

* `TypeCorrect`: `Spec => []TypeOK`.
* `CleanupLeavesNothing`: `Spec => []NoLeak`. `NoLeak` alone is not inductive: it
  speaks of the moment cleanup ends. `LeakInv` adds, for each run: what it owns it
  has on its lists (`OwnedIsTracked`); the names it is about to `docker run` are on
  the list already (`StartIsTracked`, with the loop variable `todo`); the list of
  containers is empty before cleanup moves on (`CleanedInOrder`); a run that
  is over owns nothing (`IdleOwnsNothing`). The proof has one lemma per group of
  steps; other runs' steps only ever take ownership away from a run.
* `HostIsLeftClean`: `Spec => []HostClean`, for any overlap and any failures, as long as
  nothing was killed. `HostInv` is the account of who will still clean up: every container has an
  owner, and without kills none is stale (`PresentIsOwned`, `NoneStale`); a run that works
  with the network or owns a container on it has the network on its list
  (`NetworkRemembered`) and is not past its cleanup (`NetworkForgotten`); an existing
  network is on the list of some run (`NetworkAwaited`). So when Docker refuses to remove
  the network for one run, the run that still uses it will remove it.
* `SuccessIsFresh`: `Spec => []FreshOnSuccess` under `OneAtATime` (there is at most one
  invocation; kills, failures and reruns are unbounded). The assumption is needed: two
  runs of one version write into one directory, and the hazard list says so. `FreshInv`:
  a run reads only containers it owns (`UsesOwn`), and the files of the steps behind it
  are its own (`WritesInOrder`, `FreshAt`).

Assumed of the constants: `CaptureAssumption` (names are distinct, the leader is one
of several nodes), which TLC evaluates in every run.

`SealLifecycleProofs` proves for all timing constants with
`Period <= Retention < Settle` (`SealAssumption`), any number of attempts, failures
and kills, and both kinds of versions:

* `TypeCorrect`: `Spec => []TypeOK`.
* `GaugeIsCurrent`: `Spec => []NoStaleGauge`. The invariant that carries it,
  `SettleInv`, says what is known after `Settle - wait` ticks of waiting: a gauge
  nobody refreshes is at least that old or expired; a refreshed one shows the present
  state and is as old as the last round of the loop, unless that round was before
  the wait began. At the end of the wait the assumption on the constants decides both.
* `SuccessVerifies`: `Spec => []CaptureVerifies`, from `NoStaleGauge` and `FilesInv`
  (the phases before the present one are on disk with the right status).

`ReleaseBundleProofs` proves for every tree, set of includes, number of builds and all
bounds, from `ReleaseAssumption`:

* `TypeCorrect`: `Spec => []TypeOK`, and `NothingLeftBehind`: `Spec => []NoLitter`.
* `BundleIsAtomic`: `Spec => PublishesAtomically`, the refinement of `AtomicPublish`.
  It rests on `TempInv`: while a build writes, its temporary file holds entries no
  longer than their headers, for exactly the files that are no longer on its list; when
  it may rename, the body is whole, because `Short` was false with an empty list. A
  build touches no temporary file but its own (`OthersKept`).
* `UntouchedFilesArePacked`: `Spec => []UntouchedFilesExact`. `ExactInv` follows the paths nobody
  edited during the build: each file of an include that was looked at is an entry or will be
  looked at (`SeenInv`), entries have the present size (`StatInv`), and what was copied is
  the present content (`CopyInv`).
* `ChecksumsAreTrue`: `Spec => []ChecksumsExact`. `ListInv`: a build that counts as alone
  is the only active one (`AloneInv`), so the files it listed and hashed stay as they were
  (`AssetInv`).
* `FailuresHaveReasons`: `Spec => FailsForAReason`, from `ExactInv` and
  `ListInv`: each way of `Refused` contradicts one of them unless a path was edited or
  another build interfered.

`ArchiveAssumption` says that the value for "no file" is not the name of an archive.

`ArchiveHealthProofs` proves for all deployments, windows, pending times, staleness limits
and bounds of the counters, from `ArchiveAssumption` (`For + 2 <= Window`: the range of
`increase` reaches back further than the alert is pending, 10 m and 15 m in the alerts):

* `TypeCorrect`.
* `LastingFaultsFire`: `Spec => []UnhealthyIsReported`, because the alert of the newest
  labels has been pending for as many scrapes of a fault as had these labels, whichever
  fault it was at each (`SickInv`). That holds of the labels of the flags, which an
  unreadable file falls back to, as of the file's.
* `SingleFailuresFire`: `Spec => []FailureIsReported`. The newest sample shows the counters
  or, if the file could not be read, zeros (`KnownInv`); so a counter that rose
  `debt` scrapes ago did so between two samples that are still in the range, and the
  alert has been pending as long (`DebtInv`).
* `FalseAlarmsAreResets`: an alert starts to fire only if there is a fault, there was a
  failure within the window, or a sample of the range shows zeros. The samples since the
  last failure show the counters as they are or zeros (`QuietInv`), so the read error of
  the run ArchiveFalseAlarm is the only cause of false alarms.

`ScenarioProofs` proves for any number of runs, faults, retries and expiries:

* `TypeCorrect`, `UndisturbedRunsSucceed` (`Spec => []SucceedsUndisturbed`),
  `LearnedLeasesAreRevoked` (`Spec => []LearnedLeasesRevoked`) and `ReportsTellOutcomes`
  (`Spec => []ReportTellsOutcome`).
* What they need of the script is a property of each place in it: a role is written after
  its mount, a lease is issued after its role, looked up or renewed between issue and
  revocation, and revoked before the end (`WellPlaced`). `IsScript` is closed under
  concatenation with a part that keeps these promises; there is one lemma per function of
  `scenario.go`, and `WholeScript` puts them together.
* `IInv` then says what the server holds at each place: which roles are those of this
  run (`WritesLast`), which mounts are there (`MountsLast`), which leases the client knows
  (`ClientReturns`, `LeasesEnd`), and that a run nobody disturbed has had no unexpected
  answer (`UndisturbedInv`). `ReportInv` and `OutcomeInv` relate the file to the run.

`RepositoryProofs` proves for all contracts, fixtures, lists of files, scans and any
number of edits, mishaps and pushes:

* `ProfilesStandAlone` and `MergesAreCurrent`: `Spec => []ProfilesSelfContained` and
  `Spec => []MergedIsCurrent`, without assumptions. They rest on `VerdictsHold`: the verdict
  and the result of CI hold of the present tree and the last commit (`IInv`), because every
  step that changes either drops or renews the result. The rest is logic about
  `VerifyRepository`: the operator's rules equal the native ones (`SameRules`), whose
  references were looked up in the profile's own file; CI's tree is the generated one laid
  over the tracked one, and `git diff` found no difference. `MergesAreCurrent` is about the
  files in the commit: `git diff` skips untracked ones, so a generated file the
  commit lacks is compared with nothing.
* `ArtifactsAreOfContracts`: `Spec => []ArtifactsMatchContracts`. `DefaultAlerts`: a tree
  that is accepted has the alerts of the contracts, file by file in both directions;
  `SameQuestions`: a dashboard that agrees with its contract asks what the contract asks.
* `RerunsForgetHistory`: `Spec => []RerunForgetsHistory`. `LifeInv` tells what a tree can
  hold: documents of known paths (`TypeInv`), and for a run that mixed no revisions exactly
  what the commands it started write, but for the writes still ahead (`RunInv`). That is
  consistent because two commands of one revision never write different documents to one
  path (`DocOf`). What a path holds in the end is its last write, which exists by the
  least-number principle (`GeneratedKnown`).
* `TornFilesAreRejected`: `Spec => []TornFilesRejected`. `MishapInv` counts the truncated
  files (none without a mishap, one after one); the intact files next to the truncated one
  have the alerts or panels it lacks.
* `RequiredMetricsAreShown`: `Spec => []RequiredMetricsShown`. Every supported prefix has its
  fixtures to itself, and the rows of the matrix follow the contract's metrics
  (`RowsShown`).
* `VulnerabilitiesGated`: `Spec => []VulnerabilitiesGate`; `TracesShown` is about the state
  the filter keeps from line to line.

`RepositoryAssumption`, which TLC evaluates, says what the last five need: the Makefile
generates all files of alerts and the recording rules have a file of their own, the name
of a fixture directory names one supported prefix only, and lists are lists.

`RecordingRulesProofs` proves for any finite set of targets, any length of the range, any
mixture of families the behaviours look at, and any order of scrapes and evaluations, the six invariants of the run
RecordingRules: `SealStateIsOfTheNode`, `CountIsOfThisRound`, `BacklogsAreOfLeaders`,
`LatencyIsOfTheNode`, `MountsAreCountedOnce` and `RecordsStayInRange`. All rest on
`RecordsAreOfTheSamples`:

* `ScrapedInv`: what the server holds of a target is one exposition of it under its labels,
  or nothing; the set of samples is finite.
* `WholeGroup`: no two rules of the group write one record, every expression yields a vector
  (one sample per set of labels), and the two rules that read a record come after the rule
  that writes it. There is one lemma per group of rules; a group is closed under
  concatenation with one of other names (`ConcatenationKeeps`). A name is a pair because of
  strings the provers know only whether two are the same literal.
* Hence an evaluation records of each rule what its expression yields (`EvaluatedByRule`,
  `RecordsOfRule`), and until the next scrape that is still so (`RoundInv`).
* The net change reads records of earlier rounds. `BacklogInv` says that the records in
  range are the backlogs of the nodes that led (`recent = led`), which `BacklogIsLeading`
  shows of one round. The slope of a series is a quotient of two sums over pairs of its
  samples; it is positive only if the value rises over some pair, negative only if it
  falls over one (`SlopeSign`, by `TotalOfSign`).

The rest is about expressions: a sum over a finite set by its smallest counterexample
(`SmallestSubset`), greatest and least values of few candidates, and what each expression
yields on the expositions of a target. `RulesAssumption` says that targets are finitely many
records of two strings, names the families, and that a range holds at least one round.

**Only model-checked.** All liveness (`Terminates`, `RecoversUnlessHeld`,
`RecoveryIsReported`, `OutageIsReported`, `LeasesDrain`), which TLAPS does not prove under
fairness, and the four violations, which have no proof. `FreshOnSuccess` is model-checked
and proved for one invocation at a time.

## 5. Plan

Modelled: CaptureRun, SealLifecycle, ArchiveHealth, Scenario, ReleaseBundle,
RecordingRules, and Repository with the modules it composes. Every safety property the
passing runs check is proved. What is left: `SuccessIsFresh` for overlapping
captures of different versions, which write to directories of their own, and the lemmas of
`RecordingRulesProofs` that are about PromQL alone in a module of their own.

## 6. Not modelled

* The Raft topology of a capture (`waitForRaftTopology` and the samples after it) and the
  read consistency checks: their hazards are elections, Autopilot and replication in
  OpenBao, of which this code sees one HTTP answer after the other.
* Query validation against a live Prometheus, documentation and link checks, the metric
  parser: stateless loops. Rendering to YAML, JSON and Markdown beyond the fields the
  properties compare. Flag parsing. The website and example configurations.
* The HTTP server of the exporter; negative counters and empty labels in its status file,
  which `validateStatus` turns into the same read error as a bad timestamp, but with the
  counters kept. Contents of fixtures beyond who wrote them. The other checks of
  `fixtures verify`.

## 7. Observations

Met while modelling; facts about the code that no property above contradicts:

* `verify-repository` compares alerts with the contracts by name and only those of the
  default files; a stale expression in the openbao profile, or its Loki rules emptied, is
  accepted. It never looks into the matrix. Only the regeneration in `make verify` finds
  these.
* `git diff --exit-code -- generated` does not see untracked files: a commit that lacks a
  newly generated dashboard passes CI. A dashboard whose `generate` command is missing from
  the Makefile is never regenerated.
* Where the flags (`--backend`, `--pipeline`) and the status file name different labels, a
  file that is now unreadable, now readable but unhealthy, changes the labels of its series
  from scrape to scrape; the pending time of the alert starts again each time and nothing is
  reported.
* After a failed capture the fixtures of two runs may stand side by side, and after a failed
  scenario whose last write fails too the report of an earlier run remains. Verification may
  accept either: the exit code of the run is the only sign.
* `requiresProcedureSections` (`internal/docs/verify.go:302`) looks for `/docs/runbooks/` in
  paths that `make docs-verify` makes start with `docs/`: the rule never applies there.
* The default list of dashboards for query validation (`main.go:666`) leaves out
  `openbao-namespaces-scale`. `usageText` does not mention `generate alert-rules`.
* Exit code 1 of the wrapper is also what govulncheck itself uses for errors.
