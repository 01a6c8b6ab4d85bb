----------------------------- MODULE SealLifecycle -----------------------------
(***************************************************************************)
(* The seal lifecycle capture (internal/fixtures/seal_lifecycle.go): one    *)
(* OpenBao server is taken through five seal states; in each, the capture   *)
(* polls the API until the server reports the state, waits for stale        *)
(* telemetry to expire, and writes the metrics and the API status to a pair *)
(* of files, which `fixtures verify` compares afterwards.                   *)
(*                                                                         *)
(* The server is external: it sets the seal gauge from a loop of its own,   *)
(* and its Prometheus sink keeps a value for the retention time.  Time is   *)
(* counted in ticks; a run may fail or be killed anywhere and be run again  *)
(* into the same output directory.                                          *)
(***************************************************************************)
EXTENDS Integers

CONSTANTS
    Retention,    \* prometheus_retention_time of the fixture, in ticks
    Period,       \* most ticks between two rounds of the server's gauge loop
    Settle,       \* ticks captureSealPhase waits before it scrapes
    MaxPolls,     \* attempts of awaitFixture
    MaxFailures   \* bound: environment failures and kills

ASSUME SealAssumption ==
    /\ Retention \in Nat /\ Period \in Nat /\ Settle \in Nat
    /\ Period <= Retention /\ Retention < Settle
    /\ MaxPolls \in Nat \ {0}
    /\ MaxFailures \in Nat

Absent    == "absent"     \* no series of the gauge
Unwritten == "unwritten"  \* no file

State == [initialized : BOOLEAN, sealed : BOOLEAN]

sealPhases == <<
    [initialized |-> FALSE, sealed |-> TRUE],    \* startup
    [initialized |-> TRUE,  sealed |-> FALSE],   \* unsealed
    [initialized |-> TRUE,  sealed |-> TRUE],    \* resealed
    [initialized |-> TRUE,  sealed |-> TRUE],    \* restarted
    [initialized |-> TRUE,  sealed |-> FALSE] >> \* recovered

Phase == 1 .. 5
Gauge == {Absent, "0", "1"}

VARIABLES
    pc,        \* step of the capture
    phase,     \* the phase being captured, or driven towards
    polls,     \* attempts left in awaitFixture
    wait,      \* ticks left in fixtureDelay
    status,    \* the API status sampled by the last poll
    server,    \* the container: absent, booting, up or exited
    state,     \* the server's seal state
    gauge,     \* last value set in the server's sink
    age,       \* ticks since it was set, up to Retention + 1
    due,       \* ticks since the last round of the gauge loop
    prom,      \* the metrics file of each phase
    json,      \* the status file of each phase, {} before it is written
    result, failures,
    refreshes  \* the version keeps setting the gauge while sealed (2.7)

telemetry == <<gauge, age, due>>
files == <<prom, json>>
vars == <<pc, phase, polls, wait, status, server, state, telemetry, files, result,
          failures, refreshes>>

CaptureStep == {"poll", "settle", "json", "init", "drive"}

TypeOK ==
    /\ pc \in CaptureStep \cup {"idle"}
    /\ phase \in Phase
    /\ polls \in 0 .. MaxPolls
    /\ wait \in 0 .. Settle
    /\ status \in State /\ state \in State
    /\ server \in {"absent", "booting", "up", "exited"}
    /\ gauge \in Gauge
    /\ age \in 0 .. Retention + 1 /\ due \in 0 .. Period
    /\ prom \in [Phase -> Gauge \cup {Unwritten}]
    /\ json \in [Phase -> SUBSET State]
    /\ result \in {"none", "ok", "failed", "killed"}
    /\ failures \in 0 .. MaxFailures
    /\ refreshes \in BOOLEAN

Init ==
    /\ pc = "idle" /\ phase = 1 /\ polls = 0 /\ wait = 0
    /\ status = sealPhases[1] /\ state = sealPhases[1]
    /\ server = "absent"
    /\ gauge = Absent /\ age = Retention + 1 /\ due = 0
    /\ prom = [k \in Phase |-> Unwritten]
    /\ json = [k \in Phase |-> {}]
    /\ result = "none" /\ failures = 0
    /\ refreshes \in BOOLEAN

-----------------------------------------------------------------------------
(***************************************************************************)
(* The server.                                                              *)
(***************************************************************************)
\* What a scrape of the sink returns.
Exported == IF age > Retention THEN Absent ELSE gauge

\* A new server process: nothing in the sink, sealed.
Restart(initialized) ==
    /\ server' = "booting"
    /\ state' = [initialized |-> initialized, sealed |-> TRUE]
    /\ gauge' = Absent /\ age' = Retention + 1 /\ due' = 0

Boot ==
    /\ server = "booting"
    /\ server' = "up"
    /\ UNCHANGED <<refreshes, pc, phase, polls, wait, status, state, telemetry,
                   files, result, failures>>

\* A round of the gauge loop: the value of an unsealed server is refreshed,
\* that of a sealed one only by the versions that do.
Emit ==
    /\ server = "up"
    /\ due' = 0
    /\ IF state.sealed /\ ~refreshes THEN UNCHANGED <<gauge, age>>
       ELSE gauge' = (IF state.sealed THEN "0" ELSE "1") /\ age' = 0
    /\ UNCHANGED <<refreshes, pc, phase, polls, wait, status, server, state, files,
                   result, failures>>

Tick ==
    /\ server = "up" => due < Period
    /\ due' = IF server = "up" THEN due + 1 ELSE due
    /\ age' = IF age > Retention THEN age ELSE age + 1
    /\ wait' = IF wait = 0 THEN 0 ELSE wait - 1
    /\ UNCHANGED <<refreshes, pc, phase, polls, status, server, state, gauge, files,
                   result, failures>>

ServerExit ==
    /\ server \in {"booting", "up"}
    /\ failures < MaxFailures
    /\ failures' = failures + 1
    /\ server' = "exited"
    /\ UNCHANGED <<refreshes, pc, phase, polls, wait, status, state, telemetry,
                   files, result>>

-----------------------------------------------------------------------------
(***************************************************************************)
(* The capture.                                                             *)
(***************************************************************************)
\* Cleanup removes the container, on success and on error.
Finish(outcome) ==
    /\ pc' = "idle"
    /\ result' = outcome
    /\ server' = "absent"
    /\ UNCHANGED <<phase, polls, wait, status, state, telemetry>>

\* startSealFixture.  The container of a killed run holds the name: `docker
\* run` fails, and the cleanup removes that container.
StartSealFixture ==
    /\ pc = "idle"
    /\ IF server = "absent"
       THEN /\ Restart(FALSE)
            /\ pc' = "poll" /\ phase' = 1 /\ polls' = MaxPolls
            /\ result' = "none"
            /\ UNCHANGED <<wait, status>>
       ELSE Finish("failed")
    /\ UNCHANGED <<refreshes, files, failures>>

\* awaitFixture in captureSealPhase: an error of the status call is a failed
\* attempt like a status that does not match.
Converged == server = "up" /\ state = sealPhases[phase]

\* Mutated form of Poll: awaitFixture has no limit.
Poll_Forever ==
    /\ pc = "poll"
    /\ IF Converged
       THEN pc' = "settle" /\ status' = state /\ wait' = Settle
       ELSE UNCHANGED <<pc, status, wait>>
    /\ UNCHANGED <<refreshes, phase, polls, server, state, telemetry, files, result,
                   failures>>

\* Mutated form of Poll: the attempts are not compared with the limit.
Poll_NoLimit ==
    /\ pc = "poll"
    /\ IF Converged
       THEN pc' = "settle" /\ status' = state /\ wait' = Settle /\ UNCHANGED polls
       ELSE polls' = polls - 1 /\ UNCHANGED <<pc, status, wait>>
    /\ UNCHANGED <<refreshes, phase, server, state, telemetry, files, result,
                   failures>>

\* Mutated form of Poll: the scrape follows at once.
Poll_NoDelay ==
    /\ pc = "poll" /\ polls > 0
    /\ IF Converged
       THEN pc' = "settle" /\ status' = state /\ wait' = 0 /\ UNCHANGED polls
       ELSE polls' = polls - 1 /\ UNCHANGED <<pc, status, wait>>
    /\ UNCHANGED <<refreshes, phase, server, state, telemetry, files, result,
                   failures>>

Poll ==
    /\ pc = "poll" /\ polls > 0
    /\ IF Converged
       THEN pc' = "settle" /\ status' = state /\ wait' = Settle /\ UNCHANGED polls
       ELSE polls' = polls - 1 /\ UNCHANGED <<pc, status, wait>>
    /\ UNCHANGED <<refreshes, phase, server, state, telemetry, files, result,
                   failures>>

\* After the delay: the metrics file, then the status sampled before the delay.
CaptureMetrics ==
    /\ pc = "settle" /\ wait = 0
    /\ server = "up"
    /\ prom' = [prom EXCEPT ![phase] = Exported]
    /\ pc' = "json"
    /\ UNCHANGED <<refreshes, phase, polls, wait, status, server, state, telemetry,
                   json, result, failures>>

\* The last phase ends the run, the first is followed by the initialization.
WriteStatus ==
    /\ pc = "json"
    /\ json' = [json EXCEPT ![phase] = {status}]
    /\ IF phase = 5 THEN Finish("ok")
       ELSE /\ pc' = IF phase = 1 THEN "init" ELSE "drive"
            /\ phase' = phase + 1
            /\ UNCHANGED <<polls, wait, status, server, state, telemetry, result>>
    /\ UNCHANGED <<refreshes, prom, failures>>

Initialize ==
    /\ pc = "init"
    /\ server = "up"
    /\ state' = [state EXCEPT !.initialized = TRUE]
    /\ pc' = "drive"
    /\ UNCHANGED <<refreshes, phase, polls, wait, status, server, telemetry, files,
                   result, failures>>

\* Mutated form of Drive: the server is not restarted before "restarted", and
\* that phase is skipped.
Drive_SkipRestart ==
    /\ pc = "drive"
    /\ server = "up"
    /\ state' = [state EXCEPT !.sealed = (phase = 3)]
    /\ phase' = IF phase = 4 THEN 5 ELSE phase
    /\ pc' = "poll" /\ polls' = MaxPolls
    /\ UNCHANGED <<refreshes, server, telemetry, wait, status, files, result,
                   failures>>

\* Unseal, seal, `docker restart`, unseal.
Drive ==
    /\ pc = "drive"
    /\ IF phase = 4 THEN server # "absent" /\ Restart(state.initialized)
       ELSE /\ server = "up"
            /\ state' = [state EXCEPT !.sealed = (phase = 3)]
            /\ UNCHANGED <<server, telemetry>>
    /\ pc' = "poll" /\ polls' = MaxPolls
    /\ UNCHANGED <<refreshes, phase, wait, status, files, result, failures>>

\* A call the server does not answer, or attempts that ran out, end the run;
\* so may any other call.
Refused ==
    \/ pc = "poll" /\ polls = 0
    \/ pc \in {"settle", "init"} /\ server # "up" /\ wait = 0
    \/ pc = "drive" /\ phase # 4 /\ server # "up"

Fail ==
    /\ pc # "idle"
    /\ IF Refused THEN UNCHANGED failures
       ELSE failures < MaxFailures /\ failures' = failures + 1
    /\ Finish("failed")
    /\ UNCHANGED <<refreshes, files>>

Kill ==
    /\ pc # "idle"
    /\ failures < MaxFailures
    /\ failures' = failures + 1
    /\ pc' = "idle" /\ result' = "killed"
    /\ UNCHANGED <<refreshes, phase, polls, wait, status, server, state, telemetry,
                   files>>

Capture ==
    \/ Poll \/ CaptureMetrics \/ WriteStatus \/ Initialize \/ Drive \/ Fail

Next ==
    \/ StartSealFixture \/ Capture \/ Kill
    \/ Boot \/ Emit \/ Tick \/ ServerExit

Spec == Init /\ [][Next]_vars

\* The process and its timers run; the server's gauge loop runs.
FairSpec == Spec /\ WF_vars(Capture) /\ WF_vars(Tick) /\ WF_vars(Emit)

-----------------------------------------------------------------------------
(***************************************************************************)
(* The verification of the files (checkSealPhase).                          *)
(***************************************************************************)
CheckSealPhase(k) ==
    /\ json[k] = {sealPhases[k]}
    /\ IF sealPhases[k].sealed /\ ~refreshes THEN prom[k] = Absent
       ELSE prom[k] = IF sealPhases[k].sealed THEN "0" ELSE "1"

CheckSealLifecycle == \A k \in Phase : CheckSealPhase(k)

-----------------------------------------------------------------------------
(***************************************************************************)
(* Properties.                                                              *)
(***************************************************************************)

\* What an up-to-date scrape of a server in the given state returns.
Current(s) == IF ~s.sealed THEN "1" ELSE IF refreshes THEN "0" ELSE Absent

\* "Wait beyond the configured five-second retention so stale values cannot
\* pass" (captureSealPhase): whatever failed, was killed or was run again, a
\* metrics file shows the seal state its phase is about, never the gauge of the
\* state before.
NoStaleGauge ==
    \A k \in Phase : prom[k] # Unwritten => prom[k] = Current(sealPhases[k])

\* A capture that reports success leaves files that `fixtures verify` accepts.
CaptureVerifies == result = "ok" => CheckSealLifecycle

\* A capture ends even when its server never comes up.
Terminates == pc # "idle" ~> pc = "idle"
=============================================================================
