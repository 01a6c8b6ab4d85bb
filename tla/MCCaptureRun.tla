----------------------------- MODULE MCCaptureRun -----------------------------
\* Model-checking instance of CaptureRun for overlapping invocations.
EXTENDS CaptureRun, TLC

\* The invocations are interchangeable.
Symmetry == Permutations(Proc)

\* Neither the fixture files nor the exit code is read by any step, and the
\* invariants checked with this view mention neither.
HostView == <<pc, cur, todo, status, owner, network, dirs, memory, failures, crashes>>
=============================================================================
