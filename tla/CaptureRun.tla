------------------------------ MODULE CaptureRun ------------------------------
(***************************************************************************)
(* `fixtures capture` (internal/fixtures/capture.go, seal_lifecycle.go): a  *)
(* command that starts Docker containers under fixed names, a Docker        *)
(* network and temporary directories, scrapes fixture files out of the      *)
(* containers, and removes what it started in one deferred cleanup.         *)
(*                                                                         *)
(* The model keeps who owns each Docker resource, what the run remembers    *)
(* to remove, and which run's containers the fixture files came from.  A    *)
(* run may be killed at any step (the command installs no signal handler,   *)
(* so nothing is cleaned up), may see any step fail, and may overlap with   *)
(* another run of the same OpenBao version, which uses the same names.      *)
(***************************************************************************)
EXTENDS Naturals, FiniteSets

CONSTANTS
    Proc,          \* concurrent invocations of the command on one host
    RaftNode,      \* the containers of the Raft fixture, voters and replicas
    Leader,        \* voters[0], the node the capture initializes and drives
    MaxFailures,   \* bound: environment failures (docker, HTTP, container exit)
    MaxCrashes     \* bound: killed runs

Free   == "free"    \* no owner: the name is unused
Stale  == "stale"   \* left behind by a killed run
Leaked == "leaked"  \* left behind by a run that finished its own cleanup
Old    == "old"     \* fixture file written by an earlier run

Prefix == {"vault", "openbao"}
TempDir == Prefix \cup {"raft", "seal"}
Name    == Prefix \cup {"postgres", "seal"} \cup RaftNode
Networked == {"postgres"} \cup RaftNode   \* containers started with --network

Owner == Proc \cup {Free, Stale, Leaked}

ASSUME CaptureAssumption ==
    /\ IsFiniteSet(RaftNode)
    /\ Leader \in RaftNode /\ RaftNode # {Leader}
    /\ RaftNode \cap (Prefix \cup {"postgres", "seal"}) = {}
    /\ Proc \cap {Free, Stale, Leaked, Old} = {}
    /\ MaxFailures \in Nat /\ MaxCrashes \in Nat

(***************************************************************************)
(* The fixture files, grouped by the step that writes them.                 *)
(***************************************************************************)
Output == Prefix \cup {"topology", "workload", "cluster", "seal"}

VARIABLES
    pc,          \* step each invocation is at
    cur,         \* the prefix of the capturePrefix loop
    todo,        \* nodes left in the loop over the Raft nodes
    status,      \* Docker: state of each container name
    owner,       \* Docker: which run started the container
    network,     \* Docker: owner of the Raft network, or Free
    dirs,        \* temporary directories on the host, <<owner, directory>>
    containers,  \* captureRun.containers
    networks,    \* captureRun.networks (one name: it is there or not)
    tempDirs,    \* captureRun.tempDirs
    fixture,     \* output directory: whose containers each group came from
    result,      \* exit of the last run of each invocation
    failures, crashes

docker == <<status, owner, network, dirs>>
memory == <<containers, networks, tempDirs>>
vars == <<pc, cur, todo, docker, memory, fixture, result, failures, crashes>>

PrefixStep == {"mktemp", "replace", "run", "exercise"}
RaftStep == {"network-rm", "network-create", "postgres-replace", "postgres-run",
             "raft-mktemp", "register", "leader-run", "followers-run",
             "topology", "workload", "cluster"}
SealStep == {"seal-mktemp", "seal-run", "seal"}
CleanStep == {"clean-containers", "clean-network", "clean-dirs"}
Working == PrefixStep \cup RaftStep \cup SealStep
Step == Working \cup CleanStep \cup {"idle"}

TypeOK ==
    /\ pc \in [Proc -> Step]
    /\ cur \in [Proc -> Prefix]
    /\ todo \in [Proc -> SUBSET RaftNode]
    /\ status \in [Name -> {"absent", "created", "running", "exited"}]
    /\ owner \in [Name -> Owner]
    /\ network \in Owner
    /\ dirs \in SUBSET (Owner \X TempDir)
    /\ containers \in [Proc -> SUBSET Name]
    /\ networks \in [Proc -> BOOLEAN]
    /\ tempDirs \in [Proc -> SUBSET TempDir]
    /\ fixture \in [Output -> SUBSET (Owner \cup {Old})]
    /\ result \in [Proc -> {"none", "ok", "failed", "killed"}]
    /\ failures \in 0 .. MaxFailures
    /\ crashes \in 0 .. MaxCrashes

Init ==
    /\ pc = [p \in Proc |-> "idle"]
    /\ cur = [p \in Proc |-> "vault"]
    /\ todo = [p \in Proc |-> RaftNode]
    /\ status = [n \in Name |-> "absent"]
    /\ owner = [n \in Name |-> Free]
    /\ network = Free
    /\ dirs = {}
    /\ containers = [p \in Proc |-> {}]
    /\ networks = [p \in Proc |-> FALSE]
    /\ tempDirs = [p \in Proc |-> {}]
    /\ fixture = [g \in Output |-> {}]
    /\ result = [p \in Proc |-> "none"]
    /\ failures = 0
    /\ crashes = 0

-----------------------------------------------------------------------------
(***************************************************************************)
(* Docker.  `rm -f` frees the name whatever its state and whoever started   *)
(* it; `network rm` is refused while a running container is attached; both  *)
(* are called with their errors ignored.                                    *)
(***************************************************************************)
NetworkBusy == \E n \in Networked : status[n] = "running"

RemoveContainer(n) ==
    /\ status' = [status EXCEPT ![n] = "absent"]
    /\ owner' = [owner EXCEPT ![n] = Free]

RemoveNetwork == network' = IF NetworkBusy THEN network ELSE Free

Goto(p, step) == pc' = [pc EXCEPT ![p] = step]

\* `docker run` needs a free name and, with --network, an existing network.
CanRun(n) == /\ status[n] = "absent"
             /\ n \in Networked => network # Free

RunContainer(p, n) ==
    /\ CanRun(n)
    /\ status' = [status EXCEPT ![n] = "running"]
    /\ owner' = [owner EXCEPT ![n] = p]

\* Mutated form of Track: the read replicas are started but not remembered.
Track_LeaderOnly(p, n) ==
    containers' = [containers EXCEPT ![p] =
                     IF n \in RaftNode \ {Leader} THEN @ ELSE @ \cup {n}]

Track(p, n) == containers' = [containers EXCEPT ![p] = @ \cup {n}]

\* The names the step at pc[p] executes in, scrapes or polls.
Used(p) == {n \in Name :
    \/ pc[p] = "exercise" /\ n = cur[p]
    \/ pc[p] \in {"topology", "workload", "cluster"} /\ n \in RaftNode
    \/ pc[p] = "workload" /\ n = "postgres"
    \/ pc[p] = "seal" /\ n = "seal"}

Serving(p) == \A n \in Used(p) : status[n] = "running"

\* Mutated form of Scrape: files of an earlier run are kept beside the new ones.
Scrape_Keep(p, group) ==
    fixture' = [fixture EXCEPT ![group] =
                  @ \cup {owner[n] : n \in Used(p) \ {"postgres"}}]

\* Writes the fixture group of a step, from the containers it read.
Scrape(p, group) ==
    fixture' = [fixture EXCEPT ![group] = {owner[n] : n \in Used(p) \ {"postgres"}}]

-----------------------------------------------------------------------------
(***************************************************************************)
(* Capture, capturePrefix, captureRaft, captureSealLifecycle: the steps of  *)
(* a run that succeeds.                                                     *)
(***************************************************************************)
\* Ghost: what a run that is over still owns is from then on owned by o.
Disown(p, o, remaining) ==
    /\ owner' = [n \in Name |-> IF owner[n] = p THEN o ELSE owner[n]]
    /\ network' = IF network = p THEN o ELSE network
    /\ dirs' = {<<IF d[1] = p THEN o ELSE d[1], d[2]>> : d \in remaining}

Start(p) ==
    /\ pc[p] = "idle"
    /\ Goto(p, "mktemp")
    /\ cur' = [cur EXCEPT ![p] = "vault"]
    /\ todo' = [todo EXCEPT ![p] = RaftNode]
    /\ containers' = [containers EXCEPT ![p] = {}]
    /\ networks' = [networks EXCEPT ![p] = FALSE]
    /\ tempDirs' = [tempDirs EXCEPT ![p] = {}]
    /\ fixture' = [g \in Output |->
                     {IF o = p THEN Old ELSE o : o \in fixture[g]}]
    /\ result' = [result EXCEPT ![p] = "none"]
    /\ UNCHANGED <<docker, failures, crashes>>

\* Mutated form of MakeTempDir: remembers the pair, not the directory.
MakeTempDir_Pair(p, d, next) ==
    /\ dirs' = dirs \cup {<<p, d>>}
    /\ tempDirs' = [tempDirs EXCEPT ![p] = @ \cup {<<p, d>>}]
    /\ Goto(p, next)
    /\ UNCHANGED <<cur, todo, status, owner, network, containers, networks, fixture,
                   result, failures, crashes>>

MakeTempDir(p, d, next) ==
    /\ dirs' = dirs \cup {<<p, d>>}
    /\ tempDirs' = [tempDirs EXCEPT ![p] = @ \cup {d}]
    /\ Goto(p, next)
    /\ UNCHANGED <<cur, todo, status, owner, network, containers, networks, fixture,
                   result, failures, crashes>>

ReplaceContainer(p, n, next) ==
    /\ RemoveContainer(n)
    /\ Track(p, n)
    /\ Goto(p, next)
    /\ UNCHANGED <<cur, network, dirs, networks, tempDirs, fixture, result,
                   failures, crashes>>

StartContainer(p, n, next) ==
    /\ RunContainer(p, n)
    /\ Goto(p, next)
    /\ UNCHANGED <<cur, network, dirs, memory, fixture, result, failures, crashes>>

CapturePrefix(p) ==
    \/ pc[p] = "mktemp" /\ MakeTempDir(p, cur[p], "replace")
    \/ pc[p] = "replace" /\ ReplaceContainer(p, cur[p], "run") /\ UNCHANGED todo
    \/ pc[p] = "run" /\ StartContainer(p, cur[p], "exercise") /\ UNCHANGED todo
    \/ /\ pc[p] = "exercise"
       /\ Serving(p)
       /\ Scrape(p, cur[p])
       /\ Goto(p, IF cur[p] = "vault" THEN "mktemp" ELSE "network-rm")
       /\ cur' = [cur EXCEPT ![p] = "openbao"]
       /\ UNCHANGED <<todo, docker, memory, result, failures, crashes>>

\* Mutated forms of PrepareRaftNetwork: a stale network is not removed; an
\* existing network is reused, and then not remembered.
PrepareRaftNetwork_NoRemove(p) ==
    \/ /\ pc[p] = "network-rm"
       /\ Goto(p, "network-create")
       /\ UNCHANGED <<cur, todo, docker, memory, fixture, result, failures, crashes>>
    \/ /\ pc[p] = "network-create"
       /\ network = Free
       /\ network' = p
       /\ networks' = [networks EXCEPT ![p] = TRUE]
       /\ Goto(p, "postgres-replace")
       /\ UNCHANGED <<cur, todo, status, owner, dirs, containers, tempDirs, fixture,
                      result, failures, crashes>>

PrepareRaftNetwork_Reuse(p) ==
    \/ /\ pc[p] = "network-rm"
       /\ RemoveNetwork
       /\ Goto(p, "network-create")
       /\ UNCHANGED <<cur, todo, status, owner, dirs, memory, fixture, result,
                      failures, crashes>>
    \/ /\ pc[p] = "network-create"
       /\ network' = IF network = Free THEN p ELSE network
       /\ networks' = [networks EXCEPT ![p] = network = Free]
       /\ Goto(p, "postgres-replace")
       /\ UNCHANGED <<cur, todo, status, owner, dirs, containers, tempDirs, fixture,
                      result, failures, crashes>>

PrepareRaftNetwork(p) ==
    \/ /\ pc[p] = "network-rm"
       /\ RemoveNetwork
       /\ Goto(p, "network-create")
       /\ UNCHANGED <<cur, todo, status, owner, dirs, memory, fixture, result,
                      failures, crashes>>
    \/ /\ pc[p] = "network-create"
       /\ network = Free
       /\ network' = p
       /\ networks' = [networks EXCEPT ![p] = TRUE]
       /\ Goto(p, "postgres-replace")
       /\ UNCHANGED <<cur, todo, status, owner, dirs, containers, tempDirs, fixture,
                      result, failures, crashes>>

StartRaftPostgres(p) ==
    /\ \/ pc[p] = "postgres-replace" /\ ReplaceContainer(p, "postgres", "postgres-run")
       \/ pc[p] = "postgres-run" /\ StartContainer(p, "postgres", "raft-mktemp")
    /\ UNCHANGED todo

PrepareRaftTempDir(p) ==
    pc[p] = "raft-mktemp" /\ MakeTempDir(p, "raft", "register")

\* The loops over the nodes: one node per step, the last one moves the run on.
RegisterRaftContainers(p) ==
    /\ pc[p] = "register"
    /\ \E n \in todo[p] :
         /\ ReplaceContainer(p, n, IF todo[p] = {n} THEN "leader-run" ELSE "register")
         /\ todo' = [todo EXCEPT ![p] = IF todo[p] = {n} THEN RaftNode \ {Leader}
                                                         ELSE @ \ {n}]

StartRaftLeader(p) ==
    /\ pc[p] = "leader-run"
    /\ StartContainer(p, Leader, "followers-run")
    /\ UNCHANGED todo

StartRaftFollowers(p) ==
    /\ pc[p] = "followers-run"
    /\ \E n \in todo[p] :
         /\ StartContainer(p, n, IF todo[p] = {n} THEN "topology" ELSE "followers-run")
         /\ todo' = [todo EXCEPT ![p] = @ \ {n}]

CaptureGroup(p, group, next) ==
    /\ pc[p] = group
    /\ Serving(p)
    /\ Scrape(p, group)
    /\ Goto(p, next)
    /\ UNCHANGED <<cur, todo, docker, memory, result, failures, crashes>>

\* waitForRaftTopology and waitForAutopilotTolerance; the workload; the state,
\* metrics and audit logs of every node.
CaptureRaft(p) ==
    \/ CaptureGroup(p, "topology", "workload")
    \/ CaptureGroup(p, "workload", "cluster")
    \/ CaptureGroup(p, "cluster", "seal-mktemp")

\* startSealFixture, unlike the others, does not remove the name first.
StartSealFixture(p) ==
    \/ pc[p] = "seal-mktemp" /\ MakeTempDir(p, "seal", "seal-run")
    \/ /\ pc[p] = "seal-run"
       /\ Track(p, "seal")
       /\ RunContainer(p, "seal")
       /\ Goto(p, "seal")
       /\ UNCHANGED <<cur, todo, network, dirs, networks, tempDirs, fixture, result,
                      failures, crashes>>

CaptureSealLifecycle(p) ==
    /\ pc[p] = "seal"
    /\ Serving(p)
    /\ Scrape(p, "seal")
    /\ Goto(p, "clean-containers")
    /\ result' = [result EXCEPT ![p] = "ok"]
    /\ UNCHANGED <<cur, todo, docker, memory, failures, crashes>>

Advance(p) ==
    \/ CapturePrefix(p) \/ PrepareRaftNetwork(p) \/ StartRaftPostgres(p)
    \/ PrepareRaftTempDir(p) \/ RegisterRaftContainers(p)
    \/ StartRaftLeader(p) \/ StartRaftFollowers(p) \/ CaptureRaft(p)
    \/ StartSealFixture(p) \/ CaptureSealLifecycle(p)

-----------------------------------------------------------------------------
(***************************************************************************)
(* A step that returns an error skips to the deferred cleanup.  It is       *)
(* forced when Docker refuses the step (the name or the network is taken,   *)
(* the network is gone, a container the step needs is not running: every    *)
(* wait has a deadline), and possible at any step otherwise.                *)
(***************************************************************************)
\* The container the `docker run` at pc[p] starts.
RunNames(p) == {n \in Name :
    \/ pc[p] = "run" /\ n = cur[p]
    \/ pc[p] = "postgres-run" /\ n = "postgres"
    \/ pc[p] = "leader-run" /\ n = Leader
    \/ pc[p] = "followers-run" /\ n \in todo[p]
    \/ pc[p] = "seal-run" /\ n = "seal"}

Refused(p) ==
    \/ pc[p] = "network-create" /\ network # Free
    \/ \E n \in RunNames(p) : ~CanRun(n)
    \/ ~Serving(p)

\* Mutated form of Abort: a refused step is tried again with no deadline.
Abort_RetryStep(p) ==
    /\ result' = [result EXCEPT ![p] = "failed"]
    /\ UNCHANGED <<pc, cur, todo, network, dirs, memory, crashes>>

Abort(p) ==
    /\ Goto(p, "clean-containers")
    /\ result' = [result EXCEPT ![p] = "failed"]
    /\ containers' = [containers EXCEPT ![p] =
                        IF pc[p] = "seal-run" THEN @ \cup {"seal"} ELSE @]
    /\ UNCHANGED <<cur, todo, network, dirs, networks, tempDirs, crashes>>

\* The fixture group of the step at pc[p]; a failing step may have written
\* some of its files.
Group(p) == IF pc[p] = "exercise" THEN cur[p] ELSE pc[p]

Fail(p) ==
    /\ pc[p] \in Working
    /\ IF Refused(p) THEN UNCHANGED failures
       ELSE failures < MaxFailures /\ failures' = failures + 1
    /\ \/ UNCHANGED fixture
       \/ /\ Used(p) # {}
          /\ fixture' = [fixture EXCEPT ![Group(p)] =
                            @ \cup {owner[n] : n \in Used(p) \ {"postgres"}}]
    /\ UNCHANGED <<status, owner>>
    /\ Abort(p)

\* `docker run` that created the container and could not start it.
RunFailsAfterCreate(p) ==
    /\ failures < MaxFailures
    /\ failures' = failures + 1
    /\ \E n \in RunNames(p) :
         /\ status[n] = "absent"
         /\ status' = [status EXCEPT ![n] = "created"]
         /\ owner' = [owner EXCEPT ![n] = p]
    /\ UNCHANGED fixture
    /\ Abort(p)

-----------------------------------------------------------------------------
(***************************************************************************)
(* captureRun.cleanup: containers, then networks, then directories.         *)
(***************************************************************************)
CleanContainers(p) ==
    /\ pc[p] = "clean-containers"
    /\ \/ \E n \in containers[p] :
            /\ RemoveContainer(n)
            /\ containers' = [containers EXCEPT ![p] = @ \ {n}]
            /\ UNCHANGED pc
       \/ /\ containers[p] = {}
          /\ Goto(p, "clean-network")
          /\ UNCHANGED <<status, owner, containers>>
    /\ UNCHANGED <<cur, todo, network, dirs, networks, tempDirs, fixture, result,
                   failures, crashes>>

CleanNetwork(p) ==
    /\ pc[p] = "clean-network"
    /\ IF networks[p] THEN RemoveNetwork ELSE UNCHANGED network
    /\ networks' = [networks EXCEPT ![p] = FALSE]
    /\ Goto(p, "clean-dirs")
    /\ UNCHANGED <<cur, todo, status, owner, dirs, containers, tempDirs, fixture,
                   result, failures, crashes>>

CleanDirs(p) ==
    /\ pc[p] = "clean-dirs"
    /\ Disown(p, Leaked, dirs \ ({p} \X tempDirs[p]))
    /\ tempDirs' = [tempDirs EXCEPT ![p] = {}]
    /\ Goto(p, "idle")
    /\ UNCHANGED <<cur, todo, status, containers, networks, fixture, result, failures,
                   crashes>>

Cleanup(p) == CleanContainers(p) \/ CleanNetwork(p) \/ CleanDirs(p)

-----------------------------------------------------------------------------
(***************************************************************************)
(* Environment.  A killed run (SIGINT, SIGKILL, host reboot) runs no defer. *)
(***************************************************************************)
Crash(p) ==
    /\ pc[p] # "idle"
    /\ crashes < MaxCrashes
    /\ crashes' = crashes + 1
    /\ Disown(p, Stale, dirs)
    /\ Goto(p, "idle")
    /\ result' = [result EXCEPT ![p] = "killed"]
    /\ UNCHANGED <<cur, todo, status, memory, fixture, failures>>

ContainerExit(n) ==
    /\ status[n] = "running"
    /\ failures < MaxFailures
    /\ failures' = failures + 1
    /\ status' = [status EXCEPT ![n] = "exited"]
    /\ UNCHANGED <<pc, cur, todo, owner, network, dirs, memory, fixture, result,
                   crashes>>

Run(p) == Advance(p) \/ Fail(p) \/ RunFailsAfterCreate(p) \/ Cleanup(p)

Next ==
    \/ \E p \in Proc : Start(p) \/ Run(p) \/ Crash(p)
    \/ \E n \in Name : ContainerExit(n)

Spec == Init /\ [][Next]_vars

\* Every wait of a run has a deadline and Docker commands return, so a started
\* run keeps going; FairRetry adds an operator who runs the command again.
FairSpec  == Spec /\ \A p \in Proc : WF_vars(Run(p))
FairRetry == FairSpec /\ \A p \in Proc : WF_vars(Start(p))

-----------------------------------------------------------------------------
(***************************************************************************)
(* Properties.                                                              *)
(***************************************************************************)

\* A run that got as far as its own cleanup, after success or after an error
\* at any step, leaves no container and no temporary directory it started,
\* even when another run of the same version replaces its containers meanwhile.
NoLeak ==
    /\ \A n \in Name : owner[n] # Leaked
    /\ \A d \in dirs : d[1] # Leaked

\* When no run was killed and none is active, the host is as it was before
\* the first: no container, no network, no temporary directory.  The network
\* is removed only after the containers, and a run whose `network rm` was
\* refused relies on the other run's cleanup.
HostClean ==
    crashes = 0 /\ (\A p \in Proc : pc[p] = "idle") =>
        /\ \A n \in Name : status[n] = "absent"
        /\ network = Free
        /\ dirs = {}

\* A run that reports success has written every group of fixture files, all of
\* them from containers this run started: nothing an earlier or a killed run
\* left in the output directory or in Docker is passed off as new.
FreshOnSuccess ==
    \A p \in Proc : result[p] = "ok" => \A g \in Output : fixture[g] = {p}

\* Every run ends.
Terminates == \A p \in Proc : pc[p] # "idle" ~> pc[p] = "idle"

\* What a killed run leaves in the way of the next ones: the Raft network with
\* a running container attached, which `network rm` refuses to remove and no
\* later run has on its list of containers.
Held == network = Stale /\ \E n \in Networked : status[n] = "running" /\ owner[n] = Stale

\* Running the command again after a kill succeeds in the end, unless the
\* killed run's network is held for good.
RecoversUnlessHeld == \A p \in Proc : []<>(result[p] = "ok") \/ <>[]Held

\* "Run `make fixtures-openbao` to regenerate them" (fixtures/README.md): with
\* no failure but one kill, running the command again succeeds in the end.
Regenerates == \A p \in Proc : []<>(result[p] = "ok")
=============================================================================
