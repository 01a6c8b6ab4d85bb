---------------------------- MODULE ArchiveHealth ----------------------------
(***************************************************************************)
(* The audit archive health signal, end to end: an archive pipeline         *)
(* publishes a status file (contract in examples/audit-archive-health), the *)
(* exporter turns the file into metrics at every scrape (exporter/main.go), *)
(* and the two archive alerts of contracts/alerts/critical.yaml evaluate    *)
(* the scraped samples.                                                     *)
(*                                                                         *)
(* A tick is one scrape and one rule evaluation.  Between two ticks the     *)
(* pipeline delivers, fails or dead-letters, the file is torn, lost or      *)
(* given a bad timestamp, the exporter stops and starts.                    *)
(***************************************************************************)
EXTENDS Integers, Sequences, FiniteSets

CONSTANTS
    Deployments, \* configurations of exporter, status file and expectation
    Window,      \* samples in the range of increase(...[15m])
    For,         \* ticks an alert is pending before it fires (10m)
    Stale,       \* ticks after which the last success is stale (900 seconds)
    MaxCount     \* bound: delivery failures, and dead-lettered records

Labels == UNION {{d.flagLabels, d.fileLabels, d.expected} : d \in Deployments}
Counter == {"delivery_failures", "dead_letter_records"}

NoSeries == "none"        \* labels of a scrape that got nothing

\* The range is longer than the pending time by two scrapes, as 15m and 10m are
\* with any scrape interval up to 150 seconds.
ASSUME ArchiveAssumption ==
    /\ Window \in Nat /\ For \in Nat /\ Stale \in Nat /\ MaxCount \in Nat
    /\ For + 2 <= Window
    /\ Deployments \subseteq [flag : BOOLEAN, fileEnabled : {"true", "false", "unset"},
                              flagLabels : Labels, fileLabels : Labels, expected : Labels]
    /\ NoSeries \notin Labels

NoStamp == Stale + 2     \* no last_success_timestamp series
Zero == [c \in Counter |-> 0]

VARIABLES
    deployed, \* the deployment: flag (--enabled), fileEnabled ("true", "false" or
              \* "unset" in the file), labels of the flags, of the file and of the
              \* installed audit_archive expectation
    kind,     \* the status file: "ok", "torn" (or lost), "badstamp"
    success,  \* delivery_success of the pipeline
    age,      \* ticks since its last success, up to Stale + 1
    count,    \* its counters
    up,       \* the exporter answers scrapes
    scraped,  \* the samples of the last scrape
    history,  \* labels and counters of the last Window scrapes, newest first
    pending,  \* OpenBaoAuditArchiveDegraded: ticks each label set was pending
    missing,  \* OpenBaoAuditArchiveSignalMissing: the same
    sick,     \* ghost: successive scrapes of an unhealthy archive
    known,    \* ghost: {counters at the last readable scrape}, {} if unknown
    debt,     \* ghost: scrapes since a counter rose, 0 after For + 1 of them
    quiet     \* ghost: scrapes since the last failure, up to Window + 1

archive == <<kind, success, age, count>>
prometheus == <<scraped, history, pending, missing>>
ghosts == <<sick, known, debt, quiet>>
vars == <<deployed, archive, up, prometheus, ghosts>>

Sample == [labels : Labels \cup {NoSeries}, enabled : BOOLEAN, success : BOOLEAN,
           stamp : 0 .. NoStamp, count : [Counter -> 0 .. MaxCount]]
Entry == [labels : Labels \cup {NoSeries}, count : [Counter -> 0 .. MaxCount]]

TypeOK ==
    /\ deployed \in Deployments
    /\ kind \in {"ok", "torn", "badstamp"}
    /\ success \in BOOLEAN /\ age \in 0 .. Stale + 1
    /\ count \in [Counter -> 0 .. MaxCount]
    /\ up \in BOOLEAN
    /\ scraped \in Sample
    /\ history \in Seq(Entry) /\ Len(history) <= Window
    /\ pending \in [Labels -> 0 .. For + 1] /\ missing \in 0 .. For + 1
    /\ sick \in 0 .. For + 1 /\ debt \in 0 .. For + 1
    /\ known \in SUBSET [Counter -> 0 .. MaxCount]
    /\ quiet \in 0 .. Window + 1

Nothing == [labels |-> NoSeries, enabled |-> FALSE, success |-> FALSE,
            stamp |-> NoStamp, count |-> Zero]

Init ==
    /\ deployed \in Deployments
    /\ kind = "ok" /\ success = TRUE /\ age = 0 /\ count = Zero
    /\ up = TRUE
    /\ scraped = Nothing /\ history = <<>>
    /\ pending = [l \in Labels |-> 0] /\ missing = 0
    /\ sick = 0 /\ known = {} /\ debt = 0 /\ quiet = Window + 1

-----------------------------------------------------------------------------
(***************************************************************************)
(* The archive pipeline.  It renames a new file over the old one, or, when  *)
(* its writer is broken, leaves the file as it is.                          *)
(***************************************************************************)
Publish == kind' \in {"ok", kind}

Deliver ==
    /\ success' = TRUE /\ age' = 0
    /\ Publish
    /\ UNCHANGED <<deployed, count, up, prometheus, ghosts>>

FailDelivery ==
    /\ count["delivery_failures"] < MaxCount
    /\ count' = [count EXCEPT !["delivery_failures"] = @ + 1]
    /\ success' = FALSE
    /\ Publish
    /\ quiet' = 0
    /\ UNCHANGED <<deployed, age, up, prometheus, sick, known, debt>>

DeadLetter ==
    /\ count["dead_letter_records"] < MaxCount
    /\ count' = [count EXCEPT !["dead_letter_records"] = @ + 1]
    /\ Publish
    /\ quiet' = 0
    /\ UNCHANGED <<deployed, success, age, up, prometheus, sick, known, debt>>

BreakFile ==
    /\ kind' \in {"torn", "badstamp"}
    /\ UNCHANGED <<deployed, success, age, count, up, prometheus, ghosts>>

SwitchExporter ==
    /\ up' = ~up
    /\ UNCHANGED <<deployed, archive, prometheus, ghosts>>

-----------------------------------------------------------------------------
(***************************************************************************)
(* The exporter.                                                            *)
(***************************************************************************)
\* A field the file has set before an error stays set: a bad timestamp leaves
\* the file's labels, enabled and success, but neither stamp nor counters.
LoadStatus ==
    IF kind = "torn"
    THEN [labels |-> deployed.flagLabels, enabled |-> deployed.flag,
          success |-> FALSE, stamp |-> NoStamp, count |-> Zero]
    ELSE [labels  |-> deployed.fileLabels,
          enabled |-> IF deployed.fileEnabled = "unset" THEN deployed.flag
                      ELSE deployed.fileEnabled = "true",
          success |-> success,
          stamp   |-> IF kind = "ok" THEN age ELSE NoStamp,
          count   |-> IF kind = "ok" THEN count ELSE Zero]

\* Mutated form of Collect: --enabled is not applied to a file that fails.
Collect_FileOnly == [LoadStatus EXCEPT !.enabled = @ /\ kind = "ok"]

Collect ==
    IF kind # "ok" /\ deployed.flag
    THEN [LoadStatus EXCEPT !.enabled = TRUE, !.success = FALSE]
    ELSE LoadStatus

\* A scrape of an exporter whose archive is not enabled has no counters.
Scrape == IF up THEN Collect ELSE Nothing

\* Mutated form of Remember: samples older than the range are kept.
Remember_All(s) ==
    <<[labels |-> IF s.enabled THEN s.labels ELSE NoSeries, count |-> s.count]>>
    \o history

Remember(s) ==
    LET entry == [labels |-> IF s.enabled THEN s.labels ELSE NoSeries,
                  count |-> s.count]
        older == SubSeq(history, 1, IF Len(history) < Window THEN Len(history)
                                                             ELSE Window - 1)
    IN <<entry>> \o older

-----------------------------------------------------------------------------
(***************************************************************************)
(* Prometheus.                                                              *)
(***************************************************************************)
\* increase(c[15m]) > 0 over the samples of l: a sample that is not zero and
\* differs from the one before it, a smaller one being a counter reset.
Increased(h, l, c) ==
    \E i, j \in 1 .. Len(h) :
        /\ i < j /\ h[i].labels = l /\ h[j].labels = l
        /\ \A k \in i + 1 .. j - 1 : h[k].labels # l
        /\ h[i].count[c] # h[j].count[c] /\ h[i].count[c] > 0

\* Mutated form of Degraded: no clause for a missing or an old timestamp.
Degraded_NoStamp(s, h, l) ==
    /\ s.labels = l /\ s.enabled
    /\ ~s.success \/ \E c \in Counter : Increased(h, l, c)

\* Mutated form of Degraded: no increase of the counters.
Degraded_NoIncrease(s, h, l) ==
    /\ s.labels = l /\ s.enabled
    /\ ~s.success \/ s.stamp = NoStamp \/ s.stamp > Stale

Degraded(s, h, l) ==
    /\ s.labels = l /\ s.enabled
    /\ \/ ~s.success
       \/ s.stamp = NoStamp
       \/ s.stamp > Stale
       \/ \E c \in Counter : Increased(h, l, c)

SignalMissing(s) == s.labels # deployed.expected

\* Mutated form of Wait: an alert that is not active keeps its pending time.
Wait_Sticky(n, active) == IF active /\ n <= For THEN n + 1 ELSE n

Wait(n, active) == IF ~active THEN 0 ELSE IF n > For THEN n ELSE n + 1

\* Ghosts: what the alert is meant to report, from the archive itself.
Unhealthy == kind # "ok" \/ ~success \/ age > Stale
Rose == kind = "ok" /\ \E old \in known : \E c \in Counter : count[c] > old[c]
Successive(n, holds) == IF ~holds THEN 0 ELSE IF n > For THEN n ELSE n + 1

Observe ==
    /\ sick' = Successive(sick, up /\ Unhealthy)
    /\ debt' = IF up /\ debt \in 1 .. For THEN debt + 1 ELSE IF up /\ Rose THEN 1 ELSE 0
    /\ known' = IF ~up THEN {} ELSE IF kind = "ok" THEN {count} ELSE known
    /\ quiet' = IF quiet > Window THEN quiet ELSE quiet + 1

Evaluate ==
    /\ scraped' = Scrape
    /\ history' = Remember(scraped')
    /\ pending' = [l \in Labels |-> Wait(pending[l], Degraded(scraped', history', l))]
    /\ missing' = Wait(missing, SignalMissing(scraped'))
    /\ Observe

\* A scrape, a rule evaluation, and the time to the next one.
Tick ==
    /\ Evaluate
    /\ age' = IF age > Stale THEN age ELSE age + 1
    /\ UNCHANGED <<deployed, kind, success, count, up>>

Next ==
    \/ Deliver \/ FailDelivery \/ DeadLetter \/ BreakFile
    \/ SwitchExporter
    \/ Tick

Spec == Init /\ [][Next]_vars
FairSpec == Spec /\ WF_vars(Tick)

-----------------------------------------------------------------------------
(***************************************************************************)
(* Properties.                                                              *)
(***************************************************************************)
Required == deployed.flag /\ deployed.fileEnabled # "false"
SameLabels == deployed.flagLabels = deployed.fileLabels
Firing(l) == pending[l] > For

\* With --enabled, an archive that was unhealthy at every scrape of the pending
\* time is reported, whatever the mixture of unreadable file, bad timestamp,
\* failed and stale delivery, if these scrapes had the same labels: those of
\* the file, or those of the flags while the file cannot be read.
UnhealthyIsReported ==
    Required /\ sick > For /\ (\A i, j \in 1 .. For + 1 : history[i].labels = history[j].labels) =>
        Firing(history[1].labels)

\* One failed delivery or dead-lettered record is reported even when the next
\* deliveries succeed and reads of the file fail in between: the counters keep
\* the alert active for the whole pending time.
FailureIsReported ==
    Required /\ SameLabels /\ debt > For => Firing(deployed.fileLabels)

\* An exporter that stays silent, or a file that stays unreadable, ends in an
\* alert, "instead of hiding a broken status writer" (examples README).
OutageIsReported ==
    /\ deployed.flag /\ <>[](up /\ kind = "torn") => <>[]Firing(deployed.flagLabels)
    /\ <>[]~up => <>[](missing > For)

\* Once the archive stays healthy and is scraped, the degraded alert stops firing
\* under every label set, the failures and unreadable files of the past
\* notwithstanding, and the missing-signal alert of an expectation that names the
\* labels of the file stops too.
RecoveryIsReported ==
    <>[](up /\ ~Unhealthy) =>
        /\ <>[](\A l \in Labels : ~Firing(l))
        /\ deployed.fileLabels = deployed.expected => <>[](missing <= For)

\* "The durable OpenBao audit archive path is enabled but missing, stale,
\* failing, or dead-lettering records" (description of the alert): when it
\* starts to fire, the archive is unhealthy at that scrape, or a delivery failed
\* or a record was dead-lettered within the window.
FiringMeansDegraded ==
    [][\A l \in Labels : ~Firing(l) /\ Firing(l)' => sick' > 0 \/ quiet' <= Window]_vars
=============================================================================
