-------------------------------- MODULE Scenario --------------------------------
(***************************************************************************)
(* `fixtures scenario` (internal/fixtures/scenario.go): a fixed sequence of *)
(* API calls against an OpenBao cluster that stays up from run to run.  It  *)
(* enables mounts, issues and revokes tokens and database credentials,      *)
(* provokes failures by writing database roles with invalid statements, and *)
(* reports every step; `fixtures verify` reads the report.                  *)
(*                                                                         *)
(* The API client repeats a call whose request or answer was lost, or that  *)
(* the server answered with a 5xx, up to MaxRetries times.  A run ends at   *)
(* the first error, is killed, or is run again at any time, and the next    *)
(* finds the mounts, roles and leases the last one left.  Calls that leave  *)
(* nothing another call depends on are lumped together.                     *)
(***************************************************************************)
EXTENDS Naturals, Sequences

CONSTANTS
    MaxRetries,   \* baoapi.DefaultConfig: 2
    MaxFaults     \* bound: lost calls, outages, kills, slow or failed writes

ASSUME ScenarioAssumption == MaxRetries \in Nat /\ MaxFaults \in Nat

Role == {"readonly", "ns-readonly", "failure-create", "failure-renew", "failure-revoke"}
Lease == {"token", "ns-token"} \cup Role
Namespace == {"root", "team-a", "payments"}
Mount == {"database", "secret", "userpass", "approle", "kv-v1", "transit", "pki", "canary"}

-----------------------------------------------------------------------------
(***************************************************************************)
(* The script.                                                              *)
(***************************************************************************)
Step(op, name, of) == [op |-> op, name |-> name, of |-> of]

\* Calls that always succeed and may be repeated: runOperation and the like.
Calls(name) == Step("call", name, "none")

\* ensureMount, ensureAuth: read, and enable what is not there.
Ensure(mount, name) == <<Step("probe", name, mount), Step("create", name, mount)>>

\* ensureAuditCanary: any error of the lookup leads to the creation.
ensureAuditCanary ==
    <<Calls("write-audit-canary"),
      Step("lookup-token", "audit-canary-token", "canary"),
      Step("create", "audit-canary-token", "canary"),
      Calls("read-audit-canary")>>

\* writeDatabaseRole: statements that are nil are not sent and stay as they are.
Statements(creation, revocation, renewal) ==
    [creation |-> creation, revocation |-> revocation, renewal |-> renewal]
Good == Statements("valid", "valid", "keep")
writeDatabaseRole(role, name, statements) ==
    [op |-> "role", name |-> name, of |-> role, statements |-> statements]

issueDatabaseLease(role, write, read) ==
    <<writeDatabaseRole(role, write, Good), Step("issue", read, role)>>

exerciseTokenLifecycle ==
    <<Calls("create-expiring-token"),
      Step("issue", "create-token", "token"), Step("lookup", "lookup-token", "token"),
      Step("renew", "renew-token", "token"), Step("revoke", "revoke-token", "token")>>

exerciseDatabaseLeaseLifecycle(lease, read, lookup, renew, revoke) ==
    <<Step("issue", read, lease), Step("lookup", lookup, lease),
      Step("renew", renew, lease), Step("revoke", revoke, lease)>>

exerciseDatabaseLease ==
    exerciseDatabaseLeaseLifecycle("readonly", "read-database-credentials",
        "lookup-database-lease", "renew-database-lease", "revoke-database-lease")

exerciseKVv1 == Ensure("kv-v1", "ensure-kv-v1-mount") \o <<Calls("delete-kv-v1")>>

exerciseTransit == Ensure("transit", "ensure-transit-mount") \o <<Calls("decrypt-transit")>>

exercisePKI ==
    Ensure("pki", "ensure-pki-mount")
    \o <<Calls("ensure-pki-root"), Calls("issue-pki-certificate"), Calls("revoke-pki-certificate")>>

\* withClient: the runner's client for the time of the callback.
withClient(namespace, callback) ==
    <<Step("enter", "none", namespace)>> \o callback \o <<Step("leave", "none", "none")>>

exerciseNamespaceToken ==
    <<Step("issue", "create-namespace-token", "ns-token"),
      Step("lookup", "lookup-namespace-token", "ns-token"),
      Step("revoke", "revoke-namespace-token", "ns-token")>>

exerciseNamespaceAppRole ==
    Ensure("approle", "ensure-namespace-approle-auth") \o <<Calls("login-namespace-approle")>>

exerciseNamespaceTransit ==
    Ensure("transit", "ensure-namespace-transit-mount") \o <<Calls("decrypt-namespace-transit")>>

exerciseNamespacePKI ==
    Ensure("pki", "ensure-namespace-pki-mount")
    \o <<Calls("issue-namespace-pki-certificate"),
         Step("expect", "failed-namespace-pki-issue-invalid-domain", "none")>>

exerciseNamespaceDatabaseLease ==
    Ensure("database", "ensure-namespace-database-mount")
    \o <<Step("configure", "configure-namespace-postgres-database", "none"),
         writeDatabaseRole("ns-readonly", "write-namespace-database-readonly-role", Good)>>
    \o exerciseDatabaseLeaseLifecycle("ns-readonly", "read-namespace-database-credentials",
         "lookup-namespace-database-lease", "renew-namespace-database-lease",
         "revoke-namespace-database-lease")

exerciseNestedNamespace ==
    <<Calls("ensure-nested-namespace-payments")>>
    \o withClient("payments",
         Ensure("secret", "ensure-nested-namespace-secret-mount")
         \o <<Calls("read-nested-namespace-kv")>>)

exerciseNamespace ==
    <<Calls("ensure-namespace-team-a")>>
    \o withClient("team-a",
         Ensure("secret", "ensure-namespace-secret-mount")
         \o Ensure("userpass", "ensure-namespace-userpass-auth")
         \o <<Calls("login-namespace-userpass")>>
         \o exerciseNamespaceToken \o exerciseNamespaceAppRole
         \o exerciseNamespaceTransit \o exerciseNamespacePKI
         \o exerciseNamespaceDatabaseLease \o exerciseNestedNamespace)

renewFailure ==
    issueDatabaseLease("failure-renew", "write-database-failure-renew-role",
                       "read-database-failure-renew-credentials")
    \o <<writeDatabaseRole("failure-renew", "write-database-failure-renew-invalid-role",
                           Statements("valid", "valid", "invalid")),
         Step("expect-renew", "failed-database-update-user", "failure-renew"),
         writeDatabaseRole("failure-renew", "write-database-failure-renew-recovery-role", Good),
         Step("revoke", "revoke-database-failure-renew-lease", "failure-renew")>>

\* Mutated forms of revokeFailure: the role is not repaired and the lease not
\* revoked; the role is written without its revocation statements.
provokeRevokeFailure ==
    issueDatabaseLease("failure-revoke", "write-database-failure-revoke-role",
                       "read-database-failure-revoke-credentials")
    \o <<writeDatabaseRole("failure-revoke", "write-database-failure-revoke-invalid-role",
                           Statements("valid", "invalid", "keep")),
         Step("expect-revoke", "failed-database-delete-user", "failure-revoke")>>
revokeFailure_NoRecovery == provokeRevokeFailure
revokeFailure_Nil ==
    provokeRevokeFailure
    \o <<writeDatabaseRole("failure-revoke", "write-database-failure-revoke-recovery-role",
                           Statements("valid", "keep", "keep")),
         Step("revoke", "revoke-database-failure-revoke-lease", "failure-revoke")>>

revokeFailure ==
    provokeRevokeFailure
    \o <<writeDatabaseRole("failure-revoke", "write-database-failure-revoke-recovery-role", Good),
         Step("revoke", "revoke-database-failure-revoke-lease", "failure-revoke")>>

exerciseDatabaseExpectedFailures ==
    <<Step("expect", "failed-database-initialize", "none"),
      writeDatabaseRole("failure-create", "write-database-failure-create-role",
                        Statements("invalid", "keep", "keep")),
      Step("expect-issue", "failed-database-new-user", "failure-create")>>
    \o renewFailure \o revokeFailure

exerciseFeatureExpectedFailures ==
    <<Step("expect", "failed-pki-issue-invalid-domain", "none")>>
    \o exerciseDatabaseExpectedFailures

\* The reader logs in through a runner of its own, whose report is dropped.
exerciseExpectedFailures ==
    <<Step("expect", "failed-userpass-login", "none"),
      Step("reader-login", "login-userpass-reader", "none"),
      Step("expect", "denied-reader-kv-write", "none")>>

Script ==
    <<Calls("login-userpass-admin"), Calls("delete-kv")>> \o ensureAuditCanary
    \o <<Calls("login-approle")>> \o exerciseTokenLifecycle \o exerciseDatabaseLease
    \o exerciseKVv1 \o exerciseTransit \o exercisePKI \o exerciseNamespace
    \o exerciseFeatureExpectedFailures \o exerciseExpectedFailures

-----------------------------------------------------------------------------
VARIABLES
    pc,        \* index of the call, 0 when no run is active
    tries,     \* how often the call has been repeated
    client,    \* namespace of the runner's client
    failed,    \* the run has seen an error
    report,    \* scenarioRunner.report: last status of each step
    disk,      \* the report file
    result,
    mounts,    \* server: what is enabled, by namespace
    roles,     \* server: statements of the database roles
    leases,    \* server: live leases, with whether the active or last run knows the ID
    database,  \* PostgreSQL answers
    own,       \* ghost: the report file is the last run's
    faulty,    \* ghost: something went wrong since the last run began
    faults

server == <<mounts, roles, leases, database>>
vars == <<pc, tries, client, failed, report, disk, result, server, own, faulty, faults>>

Status == {"success", "error", "expected_error"}
Empty == [name \in {} |-> "error"]
StepName == {Script[i].name : i \in DOMAIN Script}
Reporting == Len(Script) + 1

TypeOK ==
    /\ pc \in 0 .. Reporting /\ tries \in 0 .. MaxRetries
    /\ client \in Namespace
    /\ failed \in BOOLEAN /\ own \in BOOLEAN /\ faulty \in BOOLEAN
    /\ \A r \in {report, disk} : DOMAIN r \subseteq StepName /\ \A n \in DOMAIN r : r[n] \in Status
    /\ result \in {"none", "ok", "failed", "killed"}
    /\ mounts \subseteq Namespace \X Mount
    /\ roles \in [Role -> [creation : {"valid", "invalid"}, revocation : {"valid", "invalid"},
                           renewal : {"valid", "invalid"}]]
    /\ leases \subseteq Lease \X {"known", "orphan"}
    /\ database \in BOOLEAN
    /\ faults \in 0 .. MaxFaults

\* The cluster as the initialization blocks of its configuration leave it.
Init ==
    /\ pc = 0 /\ tries = 0 /\ client = "root" /\ failed = FALSE
    /\ report = Empty /\ disk = Empty /\ result = "none"
    /\ mounts = {<<"root", "database">>}
    /\ roles = [r \in Role |-> Statements("valid", "valid", "valid")]
    /\ leases = {} /\ database = TRUE
    /\ own = FALSE /\ faulty = FALSE /\ faults = 0

-----------------------------------------------------------------------------
(***************************************************************************)
(* The server.                                                              *)
(***************************************************************************)
Live(lease) == <<lease, "known">> \in leases
InDatabase(s) == s.of \in Role

\* 4xx: the call is not repeated.
Denied(s) ==
    \/ s.op = "expect"
    \/ s.op = "create" /\ <<client, s.of>> \in mounts
    \/ s.op = "lookup-token" /\ <<client, s.of>> \notin mounts
    \/ s.op \in {"lookup", "renew", "expect-renew"} /\ ~Live(s.of)
    \/ /\ s.op \in {"role", "issue", "expect-issue"} /\ InDatabase(s)
       /\ <<client, "database">> \notin mounts

\* 5xx: the database is down or rejects the statements.
Broken(s) ==
    \/ s.op = "configure" /\ ~database
    \/ /\ InDatabase(s)
       /\ \/ /\ s.op \in {"issue", "expect-issue"}
             /\ ~database \/ roles[s.of].creation = "invalid"
          \/ /\ s.op \in {"renew", "expect-renew"}
             /\ ~database \/ roles[s.of].renewal = "invalid"
          \/ /\ s.op \in {"revoke", "expect-revoke"} /\ Live(s.of)
             /\ ~database \/ roles[s.of].revocation = "invalid"

Update(old, new) == [f \in DOMAIN old |-> IF new[f] = "keep" THEN old[f] ELSE new[f]]

\* What an accepted call changes; knower says whether its answer arrives.
Effect(s, knower) ==
    /\ mounts' = IF s.op = "create" THEN mounts \cup {<<client, s.of>>} ELSE mounts
    /\ roles' = IF s.op = "role" THEN [roles EXCEPT ![s.of] = Update(@, s.statements)] ELSE roles
    /\ leases' = IF s.op = "issue" THEN leases \cup {<<s.of, knower>>}
                 ELSE IF s.op = "expect-issue" THEN leases \cup {<<s.of, "orphan">>}
                 ELSE IF s.op \in {"revoke", "expect-revoke"} THEN leases \ {<<s.of, "known">>}
                 ELSE leases

NoEffect == UNCHANGED <<mounts, roles, leases>>

-----------------------------------------------------------------------------
(***************************************************************************)
(* The runner.                                                              *)
(***************************************************************************)
Expecting == {"expect", "expect-issue", "expect-renew", "expect-revoke"}

addStep(name, status) ==
    report' = [n \in DOMAIN report \cup {name} |-> IF n = name THEN status ELSE report[n]]

Advance(n) == pc' = pc + n /\ tries' = 0 /\ UNCHANGED failed
Stop == pc' = Reporting /\ tries' = 0 /\ failed' = TRUE

\* An expected failure that succeeds ends the run without a step.  A probe
\* that finds its mount reports at once and skips the creation.
Succeeded(s) ==
    LET found == \/ s.op = "lookup-token"
                 \/ s.op = "probe" /\ <<client, s.of>> \in mounts
    IN \/ s.op \in Expecting /\ Stop /\ UNCHANGED report
       \/ s.op = "probe" /\ ~found /\ Advance(1) /\ UNCHANGED report
       \/ found /\ addStep(s.name, "success") /\ Advance(2)
       \/ /\ s.op \notin Expecting \cup {"probe", "lookup-token"}
          /\ addStep(s.name, "success") /\ Advance(1)

\* Mutated form of Failed: the error is reported and the run goes on.
Failed_GoOn(s) ==
    \/ s.op \in Expecting /\ addStep(s.name, "expected_error") /\ Advance(1)
    \/ s.op = "lookup-token" /\ Advance(1) /\ UNCHANGED report
    \/ s.op = "reader-login" /\ Advance(1) /\ UNCHANGED report
    \/ /\ s.op \notin Expecting \cup {"lookup-token", "reader-login"}
       /\ addStep(s.name, "error") /\ Advance(1)

Failed(s) ==
    \/ s.op \in Expecting /\ addStep(s.name, "expected_error") /\ Advance(1)
    \/ s.op = "lookup-token" /\ Advance(1) /\ UNCHANGED report
    \/ s.op = "reader-login" /\ Stop /\ UNCHANGED report
    \/ /\ s.op \notin Expecting \cup {"lookup-token", "reader-login"}
       /\ addStep(s.name, "error") /\ Stop

\* Mutated forms of Repeat: the limit is not looked at; nothing is counted.
Repeat_NoLimit(s) == tries' = tries + 1 /\ UNCHANGED <<pc, failed, report>>
Repeat_Forever(s) == UNCHANGED <<pc, tries, failed, report>>

\* The API client: the error is returned when the call was repeated enough.
Repeat(s) ==
    IF tries < MaxRetries THEN tries' = tries + 1 /\ UNCHANGED <<pc, failed, report>>
                          ELSE Failed(s)

Calling == pc \in DOMAIN Script /\ Script[pc].op \notin {"enter", "leave"}

Call ==
    /\ Calling
    /\ LET s == Script[pc]
       IN \/ Denied(s) /\ NoEffect /\ Failed(s)
          \/ ~Denied(s) /\ Broken(s) /\ NoEffect /\ Repeat(s)
          \/ ~Denied(s) /\ ~Broken(s) /\ Effect(s, "known") /\ Succeeded(s)
    /\ UNCHANGED <<client, disk, result, database, own, faulty, faults>>

\* withClient and its deferred restore.
SwapClient ==
    /\ pc \in DOMAIN Script /\ Script[pc].op \in {"enter", "leave"}
    /\ client' = IF Script[pc].op = "enter" THEN Script[pc].of
                 ELSE IF client = "payments" THEN "team-a" ELSE "root"
    /\ Advance(1)
    /\ UNCHANGED <<report, disk, result, server, own, faulty, faults>>

Start ==
    /\ pc = 0
    /\ pc' = 1 /\ tries' = 0 /\ client' = "root" /\ failed' = FALSE
    /\ report' = Empty /\ result' = "none"
    /\ leases' = {<<l[1], "orphan">> : l \in leases}
    /\ own' = FALSE /\ faulty' = ~database
    /\ UNCHANGED <<disk, mounts, roles, database, faults>>

\* The report of a failed run is written too, its own error is ignored.
writeReport ==
    /\ pc = Reporting
    /\ pc' = 0
    /\ disk' = report /\ own' = TRUE
    /\ result' = IF failed THEN "failed" ELSE "ok"
    /\ UNCHANGED <<tries, client, failed, report, server, faulty, faults>>

Run == Call \/ SwapClient \/ writeReport

-----------------------------------------------------------------------------
(***************************************************************************)
(* Faults.                                                                  *)
(***************************************************************************)
Fault == faults < MaxFaults /\ faults' = faults + 1 /\ faulty' = TRUE

\* The request or the answer is lost.
LoseCall ==
    /\ Calling
    /\ Fault
    /\ LET s == Script[pc]
       IN /\ \/ NoEffect
             \/ ~Denied(s) /\ ~Broken(s) /\ Effect(s, "orphan")
          /\ Repeat(s)
    /\ UNCHANGED <<client, disk, result, database, own>>

FailReport ==
    /\ pc = Reporting
    /\ Fault
    /\ pc' = 0
    /\ disk' \in {disk, Empty}
    /\ result' = "failed"
    /\ UNCHANGED <<tries, client, failed, report, server, own>>

Kill ==
    /\ pc # 0
    /\ Fault
    /\ pc' = 0 /\ result' = "killed"
    /\ UNCHANGED <<tries, client, failed, report, disk, server, own>>

DatabaseDown ==
    /\ database
    /\ Fault
    /\ database' = FALSE
    /\ UNCHANGED <<pc, tries, client, failed, report, disk, result, mounts, roles, leases, own>>

DatabaseUp ==
    /\ ~database
    /\ database' = TRUE
    /\ UNCHANGED <<pc, tries, client, failed, report, disk, result, mounts, roles, leases, own,
                   faulty, faults>>

\* The expiration manager revokes a lease, as a revoke call would.  A run is
\* fast enough for its own leases unless it is held up.
Expire(lease, knower) ==
    /\ <<lease, knower>> \in leases
    /\ lease \in Role => database /\ roles[lease].revocation = "valid"
    /\ leases' = leases \ {<<lease, knower>>}
    /\ IF pc # 0 /\ knower = "known" THEN Fault ELSE UNCHANGED <<faulty, faults>>
    /\ UNCHANGED <<pc, tries, client, failed, report, disk, result, mounts, roles, database, own>>

Next ==
    \/ Start \/ Run
    \/ LoseCall \/ FailReport \/ Kill \/ DatabaseDown \/ DatabaseUp
    \/ \E lease \in Lease, knower \in {"known", "orphan"} : Expire(lease, knower)

Spec == Init /\ [][Next]_vars
FairSpec ==
    /\ Spec /\ WF_vars(Run) /\ WF_vars(DatabaseUp)
    /\ \A lease \in Lease, knower \in {"known", "orphan"} : WF_vars(Expire(lease, knower))

-----------------------------------------------------------------------------
(***************************************************************************)
(* Verification (checkRaftScenarioReport): the steps it asks for.           *)
(***************************************************************************)
Expected ==
    StepName \ {"none", "write-audit-canary", "audit-canary-token", "read-audit-canary",
                "create-expiring-token", "login-userpass-reader"}

Want(name) ==
    IF \E i \in DOMAIN Script : Script[i].name = name /\ Script[i].op \in Expecting
    THEN "expected_error" ELSE "success"

Accepted(r) == \A name \in Expected : name \in DOMAIN r /\ r[name] = Want(name)

-----------------------------------------------------------------------------
(***************************************************************************)
(* Properties.                                                              *)
(***************************************************************************)

\* A run that nothing disturbs succeeds, whatever mounts, half-broken roles and
\* leases earlier runs left when they failed or were killed: the failures it
\* provokes are undone before the calls that need the role to work.
SucceedsUndisturbed == ~faulty => result # "failed"

\* A run that reports success, or whose report verification accepts, has revoked
\* every token and database lease whose ID it was given, the one whose
\* revocation it made fail included.
LearnedLeasesRevoked ==
    pc = 0 /\ (result = "ok" \/ (own /\ Accepted(disk))) => \A lease \in Lease : ~Live(lease)

\* Verification accepts the report of a run exactly when the run succeeded.
ReportTellsOutcome == pc = 0 /\ own /\ result # "killed" => (Accepted(disk) <=> result = "ok")

\* Once no more runs are started, the leases of lost answers and of runs that
\* ended early expire; they stay only when a run ended between writing the
\* invalid revocation statements and repairing the role.
LeasesDrain ==
    <>[](pc = 0) => <>[](leases = {})
                    \/ <>[](result # "ok" /\ roles["failure-revoke"].revocation = "invalid")

\* Every run ends.
Terminates == pc # 0 ~> pc = 0
=============================================================================
