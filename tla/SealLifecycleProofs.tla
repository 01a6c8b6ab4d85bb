-------------------------- MODULE SealLifecycleProofs --------------------------
(***************************************************************************)
(* Proofs about SealLifecycle for all timing constants: no metrics file is  *)
(* stale and a successful capture verifies, whatever failed before.         *)
(***************************************************************************)
EXTENDS SealLifecycle, TLAPS

-----------------------------------------------------------------------------
Silent(s) == s.sealed /\ ~refreshes    \* the server does not set the gauge
Value(s) == IF s.sealed THEN "0" ELSE "1"

\* Since the last poll, Settle - wait ticks have passed: a gauge nobody
\* refreshes is that old or has expired; a refreshed one shows the present
\* state, unless the last round was before the poll.
Settling ==
    IF Silent(state) THEN age + wait >= Settle \/ age > Retention
    ELSE (gauge = Value(state) /\ age = due) \/ due + wait >= Settle

\* While the capture waits, the server is in the state of the phase or gone.
SettleInv ==
    pc = "settle" => /\ server \in {"up", "exited"}
                     /\ server = "up" => state = sealPhases[phase] /\ Settling

Written(k) == prom[k] # Unwritten /\ json[k] = {sealPhases[k]}

\* The phases before the present one are on disk; so are all after success.
FilesInv ==
    /\ pc \in {"settle", "json"} => status = sealPhases[phase]
    /\ pc = "json" => prom[phase] # Unwritten
    /\ pc # "idle" => \A k \in Phase : k < phase => Written(k)
    /\ result = "ok" => \A k \in Phase : Written(k)

IInv == TypeOK /\ NoStaleGauge /\ SettleInv /\ FilesInv

-----------------------------------------------------------------------------
LEMMA PhasesAreStates == \A k \in Phase : sealPhases[k] \in State
<1> SUFFICES ASSUME NEW k \in Phase PROVE sealPhases[k] \in State
  OBVIOUS
<1>1. CASE k = 1  BY <1>1 DEF sealPhases, State
<1>2. CASE k = 2  BY <1>2 DEF sealPhases, State
<1>3. CASE k = 3  BY <1>3 DEF sealPhases, State
<1>4. CASE k = 4  BY <1>4 DEF sealPhases, State
<1>5. CASE k = 5  BY <1>5 DEF sealPhases, State
<1> QED  BY <1>1, <1>2, <1>3, <1>4, <1>5 DEF Phase

LEMMA InitInv == Init => IInv
<1> SUFFICES ASSUME Init PROVE IInv
  OBVIOUS
<1>1. TypeOK
  BY SealAssumption, PhasesAreStates DEF Init, TypeOK, Phase, CaptureStep, Gauge, Absent
<1> QED  BY <1>1 DEF Init, IInv, NoStaleGauge, SettleInv, FilesInv

-----------------------------------------------------------------------------
\* Type correctness of one step.
LEMMA TypeStep == TypeOK /\ [Next]_vars => TypeOK'
<1> SUFFICES ASSUME TypeOK, [Next]_vars PROVE TypeOK'
  OBVIOUS
<1> USE SealAssumption, PhasesAreStates DEF TypeOK, CaptureStep
<1>1. CASE StartSealFixture
  <2>1. CASE server = "absent"
    <3>1. state' \in State
      <4>1. state' = [initialized |-> FALSE, sealed |-> TRUE]
        BY <1>1, <2>1 DEF StartSealFixture, Restart
      <4> QED  BY <4>1, Zenon DEF State
    <3> QED  BY <1>1, <2>1, <3>1 DEF StartSealFixture, Restart, Phase, Gauge, files
  <2>2. CASE server # "absent"
    BY <1>1, <2>2 DEF StartSealFixture, Finish, telemetry, files
  <2> QED  BY <2>1, <2>2
<1>2. CASE Poll
  BY <1>2 DEF Poll, telemetry, files
<1>3. CASE CaptureMetrics
  BY <1>3 DEF CaptureMetrics, Exported, telemetry, Gauge, Absent
<1>4. CASE WriteStatus
  BY <1>4 DEF WriteStatus, Finish, telemetry, Phase
<1>5. CASE Initialize
  <2>1. state' \in State
    BY <1>5 DEF Initialize, State
  <2> QED  BY <1>5, <2>1 DEF Initialize, telemetry, files
<1>6. CASE Drive
  <2>1. state' \in State
    <3>1. CASE phase = 4
      <4>1. state' = [initialized |-> state.initialized, sealed |-> TRUE]
        BY <1>6, <3>1 DEF Drive, Restart
      <4>2. state.initialized \in BOOLEAN
        BY DEF State
      <4> QED  BY <4>1, <4>2, Zenon DEF State
    <3>2. CASE phase # 4
      <4>1. state' = [state EXCEPT !.sealed = (phase = 3)]
        BY <1>6, <3>2 DEF Drive
      <4>2. \A b \in BOOLEAN : [state EXCEPT !.sealed = b] \in State
        BY DEF State
      <4>3. (phase = 3) \in BOOLEAN
        OBVIOUS
      <4> QED  BY <4>1, <4>2, <4>3
    <3> QED  BY <3>1, <3>2
  <2> QED  BY <1>6, <2>1 DEF Drive, Restart, telemetry, files, Gauge
<1>7. CASE Fail
  BY <1>7 DEF Fail, Finish, telemetry, files
<1>8. CASE Kill
  BY <1>8 DEF Kill, telemetry, files
<1>9. CASE Boot
  BY <1>9 DEF Boot, telemetry, files
<1>10. CASE Emit
  BY <1>10 DEF Emit, files, Gauge
<1>11. CASE Tick
  BY <1>11 DEF Tick, files
<1>12. CASE ServerExit
  BY <1>12 DEF ServerExit, telemetry, files
<1>13. CASE UNCHANGED vars
  BY <1>13 DEF vars, telemetry, files
<1> QED
  BY <1>1, <1>2, <1>3, <1>4, <1>5, <1>6, <1>7, <1>8, <1>9, <1>10, <1>11, <1>12, <1>13
     DEF Next, Capture

\* The version under capture is the same throughout.
LEMMA SameVersion == [Next]_vars => refreshes' = refreshes
BY DEF Next, Capture, StartSealFixture, Poll, CaptureMetrics, WriteStatus, Initialize,
       Drive, Fail, Kill, Boot, Emit, Tick, ServerExit, vars

\* What a scrape returns once the wait is over.
LEMMA SettledScrape ==
    ASSUME TypeOK, SettleInv, pc = "settle", wait = 0, server = "up"
    PROVE  Exported = Current(sealPhases[phase])
<1>1. state = sealPhases[phase] /\ Settling
  BY DEF SettleInv
<1>2. CASE Silent(state)
  <2>1. age > Retention
    BY <1>1, <1>2, SealAssumption DEF TypeOK, Settling
  <2> QED  BY <1>1, <1>2, <2>1 DEF Exported, Current, Silent
<1>3. CASE ~Silent(state)
  <2>1. gauge = Value(state) /\ age = due
    BY <1>1, <1>3, SealAssumption DEF TypeOK, Settling
  <2>2. ~(age > Retention)
    BY <2>1, SealAssumption DEF TypeOK
  <2> QED  BY <1>1, <1>3, <2>1, <2>2 DEF Exported, Current, Silent, Value, TypeOK, State
<1> QED  BY <1>2, <1>3

\* No step writes a stale metrics file.
LEMMA StaleStep == IInv /\ [Next]_vars => NoStaleGauge'
<1> SUFFICES ASSUME IInv, [Next]_vars PROVE NoStaleGauge'
  OBVIOUS
<1>1. CASE CaptureMetrics
  <2>1. prom' = [prom EXCEPT ![phase] = Current(sealPhases[phase])]
    BY <1>1, SettledScrape DEF CaptureMetrics, IInv
  <2> QED  BY <2>1, SameVersion DEF IInv, NoStaleGauge, TypeOK, Current
<1>2. CASE prom' = prom
  BY <1>2, SameVersion DEF IInv, NoStaleGauge, Current
<1>3. CaptureMetrics \/ prom' = prom
  BY DEF Next, Capture, StartSealFixture, Poll, WriteStatus, Initialize, Drive, Fail,
         Kill, Boot, Emit, Tick, ServerExit, vars, files
<1> QED  BY <1>1, <1>2, <1>3

\* The wait of a phase goes on, ends, or is left.
LEMMA SettleStep == IInv /\ [Next]_vars => SettleInv'
<1> SUFFICES ASSUME IInv, [Next]_vars, pc' = "settle" PROVE SettleInv'
  BY DEF SettleInv
<1>1. CASE Poll
  <2>1. CASE Converged
    BY <1>1, <2>1, SealAssumption
       DEF Poll, Converged, IInv, TypeOK, SettleInv, Settling, Silent, Value, telemetry
  <2>2. CASE ~Converged
    BY <1>1, <2>2 DEF Poll
  <2> QED  BY <2>1, <2>2
<1>2. CASE Emit /\ pc = "settle"
  <2>1. server' = server /\ state' = state /\ phase' = phase /\ wait' = wait
    BY <1>2 DEF Emit
  <2>2. state = sealPhases[phase] /\ Settling
    BY <1>2 DEF Emit, IInv, SettleInv
  <2>3. CASE Silent(state)
    BY <1>2, <2>1, <2>2, <2>3 DEF Emit, Settling, Silent, SettleInv, IInv
  <2>4. CASE ~Silent(state)
    <3>1. gauge' = Value(state) /\ age' = 0 /\ due' = 0
      BY <1>2, <2>4 DEF Emit, Silent, Value
    <3> QED  BY <1>2, <2>1, <2>2, <2>4, <3>1 DEF Emit, Settling, Silent, Value, SettleInv
  <2> QED  BY <2>3, <2>4
<1>3. CASE Tick /\ pc = "settle"
  <2>1. server' = server /\ state' = state /\ phase' = phase /\ gauge' = gauge
    BY <1>3 DEF Tick
  <2>2. server \in {"up", "exited"}
    BY <1>3 DEF IInv, SettleInv
  <2>3. CASE server = "exited"
    BY <2>1, <2>3 DEF SettleInv
  <2>4. CASE server = "up"
    <3>1. state = sealPhases[phase] /\ Settling
      BY <1>3, <2>4 DEF IInv, SettleInv
    <3>2. age \in 0 .. Retention + 1 /\ due \in 0 .. Period /\ wait \in 0 .. Settle
      BY DEF IInv, TypeOK
    <3>3. due' = due + 1 /\ due < Period
      BY <1>3, <2>4 DEF Tick
    <3>4. /\ age' = IF age > Retention THEN age ELSE age + 1
          /\ wait' = IF wait = 0 THEN 0 ELSE wait - 1
      BY <1>3 DEF Tick
    <3>5. Settling'
      <4> refreshes' = refreshes
        BY SameVersion
      <4>1. CASE Silent(state)
        BY <2>1, <3>1, <3>2, <3>4, <4>1, SealAssumption DEF Settling, Silent
      <4>2. CASE ~Silent(state)
        BY <2>1, <3>1, <3>2, <3>3, <3>4, <4>2, SealAssumption
           DEF Settling, Silent, Value
      <4> QED  BY <4>1, <4>2
    <3> QED  BY <2>1, <2>4, <3>1, <3>5 DEF SettleInv
  <2> QED  BY <2>2, <2>3, <2>4
<1>4. CASE ServerExit
  BY <1>4 DEF ServerExit, SettleInv
<1>5. CASE UNCHANGED vars
  BY <1>5 DEF vars, telemetry, files, IInv, SettleInv, Settling, Silent, Value
<1>6. \/ Poll
      \/ Emit /\ pc = "settle"
      \/ Tick /\ pc = "settle"
      \/ ServerExit
      \/ UNCHANGED vars
  <2>1. ~Boot
    BY DEF Boot, IInv, SettleInv
  <2>2. ~StartSealFixture
    BY DEF StartSealFixture, Finish
  <2>3. ~CaptureMetrics /\ ~WriteStatus /\ ~Initialize /\ ~Drive /\ ~Fail /\ ~Kill
    BY DEF CaptureMetrics, WriteStatus, Initialize, Drive, Fail, Kill, Finish
  <2> QED  BY <2>1, <2>2, <2>3 DEF Next, Capture, Emit, Tick
<1> QED  BY <1>1, <1>2, <1>3, <1>4, <1>5, <1>6

\* Files of earlier phases stay; the last write completes them.
LEMMA FilesStep == IInv /\ [Next]_vars => FilesInv'
<1> SUFFICES ASSUME IInv, [Next]_vars PROVE FilesInv'
  OBVIOUS
<1>1. CASE StartSealFixture
  <2>1. CASE server = "absent"
    BY <1>1, <2>1 DEF StartSealFixture, FilesInv, Phase
  <2>2. CASE server # "absent"
    BY <1>1, <2>2 DEF StartSealFixture, Finish, FilesInv
  <2> QED  BY <2>1, <2>2
<1>2. CASE Poll
  BY <1>2 DEF Poll, Converged, IInv, FilesInv, Written, files
<1>3. CASE CaptureMetrics
  <2>1. Exported # Unwritten
    BY DEF IInv, TypeOK, Exported, Gauge, Absent, Unwritten
  <2>2. prom' = [prom EXCEPT ![phase] = Exported] /\ json' = json
    BY <1>3 DEF CaptureMetrics
  <2>3. \A k \in Phase : Written(k) => Written(k)'
    BY <2>1, <2>2 DEF IInv, TypeOK, Written
  <2>4. prom'[phase] # Unwritten
    BY <2>1, <2>2 DEF IInv, TypeOK
  <2> QED  BY <1>3, <2>3, <2>4 DEF CaptureMetrics, IInv, FilesInv
<1>4. CASE WriteStatus
  <2>1. /\ json' = [json EXCEPT ![phase] = {sealPhases[phase]}]
        /\ prom' = prom
    BY <1>4 DEF WriteStatus, IInv, FilesInv
  <2>2. \A k \in Phase : Written(k) => Written(k)'
    BY <2>1 DEF IInv, TypeOK, Written
  <2>3. \A k \in Phase : k <= phase => Written(k)'
    <3> SUFFICES ASSUME NEW k \in Phase, k <= phase PROVE Written(k)'
      OBVIOUS
    <3>1. CASE k = phase
      BY <1>4, <2>1, <3>1 DEF WriteStatus, IInv, TypeOK, FilesInv, Written
    <3>2. CASE k < phase
      BY <1>4, <2>2, <3>2 DEF WriteStatus, IInv, FilesInv
    <3> QED  BY <3>1, <3>2 DEF IInv, TypeOK, Phase
  <2>4. CASE phase = 5
    BY <1>4, <2>3, <2>4 DEF WriteStatus, Finish, FilesInv, Phase
  <2>5. CASE phase # 5
    <3>1. phase' = phase + 1 /\ pc' \in {"init", "drive"} /\ result' = result
      BY <1>4, <2>5 DEF WriteStatus
    <3>2. \A k \in Phase : k < phase' => Written(k)'
      BY <2>3, <3>1 DEF IInv, TypeOK, Phase
    <3> QED  BY <2>2, <3>1, <3>2 DEF IInv, FilesInv
  <2> QED  BY <2>4, <2>5
<1>5. CASE Initialize
  BY <1>5 DEF Initialize, IInv, FilesInv, Written, files
<1>6. CASE Drive
  BY <1>6 DEF Drive, IInv, FilesInv, Written, files
<1>7. CASE Fail
  BY <1>7 DEF Fail, Finish, IInv, FilesInv, Written, files
<1>8. CASE Kill
  BY <1>8 DEF Kill, IInv, FilesInv, Written, files
<1>9. CASE Boot \/ Emit \/ Tick \/ ServerExit \/ UNCHANGED vars
  BY <1>9 DEF Boot, Emit, Tick, ServerExit, vars, IInv, FilesInv, Written, files
<1> QED
  BY <1>1, <1>2, <1>3, <1>4, <1>5, <1>6, <1>7, <1>8, <1>9 DEF Next, Capture

LEMMA Invariance == Spec => []IInv
<1>1. Init => IInv
  BY InitInv
<1>2. IInv /\ [Next]_vars => IInv'
  BY TypeStep, StaleStep, SettleStep, FilesStep DEF IInv
<1> QED  BY <1>1, <1>2, PTL DEF Spec

-----------------------------------------------------------------------------
\* TypeOK for all timing constants and bounds.
THEOREM TypeCorrect == Spec => []TypeOK
<1>1. IInv => TypeOK
  BY DEF IInv
<1> QED  BY <1>1, Invariance, PTL

\* NoStaleGauge: with a settle time longer than the retention, and a retention
\* no shorter than the period of the server's loop, no metrics file shows the
\* seal state before, whatever failed or was killed.
THEOREM GaugeIsCurrent == Spec => []NoStaleGauge
<1>1. IInv => NoStaleGauge
  BY DEF IInv
<1> QED  BY <1>1, Invariance, PTL

\* CaptureVerifies: the files of a capture that reports success, written over
\* those of any failed or killed captures, pass checkSealLifecycle.
THEOREM SuccessVerifies == Spec => []CaptureVerifies
<1>1. IInv => CaptureVerifies
  <2> SUFFICES ASSUME IInv, result = "ok", NEW k \in Phase PROVE CheckSealPhase(k)
    BY DEF CaptureVerifies, CheckSealLifecycle
  <2>1. json[k] = {sealPhases[k]} /\ prom[k] = Current(sealPhases[k])
    BY DEF IInv, FilesInv, Written, NoStaleGauge
  <2> QED  BY <2>1 DEF CheckSealPhase, Current
<1> QED  BY <1>1, Invariance, PTL
=============================================================================
