--------------------------- MODULE CaptureRunProofs ---------------------------
(***************************************************************************)
(* Proofs about CaptureRun for any set of overlapping invocations, any set  *)
(* of Raft nodes and any number of failures and kills: type correctness,    *)
(* NoLeak through the inductive invariant LeakInv, HostClean through        *)
(* HostInv, and FreshOnSuccess of a single invocation through FreshInv.     *)
(***************************************************************************)
EXTENDS CaptureRun, TLAPS

-----------------------------------------------------------------------------
\* What a run owns it has on its list, so cleanup will find it.
OwnedIsTracked(p) ==
    /\ \A n \in Name : owner[n] = p => n \in containers[p]
    /\ \A d \in dirs : d[1] = p => d[2] \in tempDirs[p]

\* `docker run` is reached with the name already on the list, except for the
\* seal fixture, whose start puts it there.
BeforeRegister == PrefixStep \cup {"network-rm", "network-create", "postgres-replace",
                                   "postgres-run", "raft-mktemp"}

StartIsTracked(p) ==
    /\ pc[p] = "run" => cur[p] \in containers[p]
    /\ pc[p] = "postgres-run" => "postgres" \in containers[p]
    /\ pc[p] \in BeforeRegister => todo[p] = RaftNode
    /\ pc[p] = "register" => RaftNode \ todo[p] \subseteq containers[p]
    /\ pc[p] \in {"leader-run", "followers-run"} => RaftNode \subseteq containers[p]

\* The list of containers is worked off before the run moves on to the rest.
CleanedInOrder(p) == pc[p] \in {"clean-network", "clean-dirs"} => containers[p] = {}

\* A run that is over owns nothing.
IdleOwnsNothing(p) ==
    pc[p] = "idle" => /\ \A n \in Name : owner[n] # p
                      /\ \A d \in dirs : d[1] # p

LeakAt(p) == OwnedIsTracked(p) /\ StartIsTracked(p) /\ CleanedInOrder(p) /\ IdleOwnsNothing(p)

LeakInv == NoLeak /\ \A p \in Proc : LeakAt(p)

-----------------------------------------------------------------------------
(***************************************************************************)
(* Facts about single steps, used by both proofs.                           *)
(***************************************************************************)

\* A step that writes files has a fixture group to write them to.
LEMMA UsedGroup ==
    ASSUME TypeOK, NEW p \in Proc, Used(p) # {}
    PROVE  Group(p) \in Output
  BY DEF TypeOK, Used, Group, Output, Prefix

\* The files of a scrape come from owners of containers.
LEMMA OwnersRead ==
    ASSUME TypeOK, NEW p \in Proc
    PROVE  {owner[n] : n \in Used(p) \ {"postgres"}} \subseteq Owner
  BY DEF TypeOK, Used

-----------------------------------------------------------------------------
(***************************************************************************)
(* Type correctness.                                                        *)
(***************************************************************************)
LEMMA InitType == Init => TypeOK
  BY CaptureAssumption DEF Init, TypeOK, Step, Owner, Free, Output, Prefix, Name, TempDir

\* The labels a step moves to.
LEMMA Steps ==
    /\ PrefixStep \subseteq Step /\ RaftStep \subseteq Step
    /\ SealStep \subseteq Step /\ CleanStep \subseteq Step /\ "idle" \in Step
  BY DEF Step, Working

\* MakeTempDir, ReplaceContainer and StartContainer keep the types.
LEMMA MakeTempDirType ==
    ASSUME TypeOK, NEW p \in Proc, NEW d \in TempDir, NEW next \in Step,
           MakeTempDir(p, d, next)
    PROVE  TypeOK'
<1>1. <<p, d>> \in Owner \X TempDir
  BY DEF Owner
<1>2. dirs' \in SUBSET (Owner \X TempDir)
  BY <1>1 DEF TypeOK, MakeTempDir
<1>3. pc' \in [Proc -> Step] /\ tempDirs' \in [Proc -> SUBSET TempDir]
  BY DEF TypeOK, MakeTempDir, Goto
<1> QED BY <1>2, <1>3 DEF TypeOK, MakeTempDir

LEMMA ReplaceType ==
    ASSUME TypeOK, NEW p \in Proc, NEW n \in Name, NEW next \in Step,
           ReplaceContainer(p, n, next), todo' \in [Proc -> SUBSET RaftNode]
    PROVE  TypeOK'
<1>1. pc' \in [Proc -> Step] /\ containers' \in [Proc -> SUBSET Name]
  BY DEF TypeOK, ReplaceContainer, Goto, Track
<1>2. /\ status' \in [Name -> {"absent", "created", "running", "exited"}]
      /\ owner' \in [Name -> Owner]
  BY DEF TypeOK, ReplaceContainer, RemoveContainer, Owner
<1> QED BY <1>1, <1>2 DEF TypeOK, ReplaceContainer

LEMMA StartType ==
    ASSUME TypeOK, NEW p \in Proc, NEW n \in Name, NEW next \in Step,
           StartContainer(p, n, next), todo' \in [Proc -> SUBSET RaftNode]
    PROVE  TypeOK'
<1>1. pc' \in [Proc -> Step]
  BY DEF TypeOK, StartContainer, Goto
<1>2. /\ status' \in [Name -> {"absent", "created", "running", "exited"}]
      /\ owner' \in [Name -> Owner]
  BY DEF TypeOK, StartContainer, RunContainer, Owner
<1> QED BY <1>1, <1>2 DEF TypeOK, StartContainer, memory

LEMMA NameFacts == Prefix \subseteq Name /\ RaftNode \subseteq Name
                   /\ "postgres" \in Name /\ "seal" \in Name /\ Leader \in Name
  BY CaptureAssumption DEF Name

LEMMA CaptureGroupType ==
    ASSUME TypeOK, NEW p \in Proc, NEW g \in Output, NEW next \in Step,
           CaptureGroup(p, g, next)
    PROVE  TypeOK'
<1>1. fixture' \in [Output -> SUBSET (Owner \cup {Old})]
  BY OwnersRead DEF TypeOK, CaptureGroup, Scrape
<1>2. pc' \in [Proc -> Step]
  BY DEF TypeOK, CaptureGroup, Goto
<1> QED BY <1>1, <1>2 DEF TypeOK, CaptureGroup, docker, memory

LEMMA AdvanceType ==
    ASSUME TypeOK, NEW p \in Proc, Advance(p)
    PROVE  TypeOK'
<1> USE Steps, NameFacts
<1>t. /\ cur[p] \in Prefix /\ cur[p] \in Name /\ cur[p] \in TempDir /\ cur[p] \in Output
      /\ "raft" \in TempDir /\ "seal" \in TempDir
  BY DEF TypeOK, TempDir, Output
<1>1. CASE CapturePrefix(p)
  <2>1. CASE pc[p] = "mktemp" /\ MakeTempDir(p, cur[p], "replace")
    BY <2>1, <1>t, MakeTempDirType DEF PrefixStep
  <2>2. CASE pc[p] = "replace" /\ ReplaceContainer(p, cur[p], "run") /\ UNCHANGED todo
    BY <2>2, <1>t, ReplaceType DEF PrefixStep, TypeOK
  <2>3. CASE pc[p] = "run" /\ StartContainer(p, cur[p], "exercise") /\ UNCHANGED todo
    BY <2>3, <1>t, StartType DEF PrefixStep, TypeOK
  <2>4. CASE /\ pc[p] = "exercise"
             /\ Scrape(p, cur[p])
             /\ Goto(p, IF cur[p] = "vault" THEN "mktemp" ELSE "network-rm")
             /\ cur' = [cur EXCEPT ![p] = "openbao"]
             /\ UNCHANGED <<todo, docker, memory, result, failures, crashes>>
    <3>1. pc' \in [Proc -> Step] /\ cur' \in [Proc -> Prefix]
      BY <2>4 DEF TypeOK, Goto, PrefixStep, RaftStep, Prefix
    <3>2. fixture' \in [Output -> SUBSET (Owner \cup {Old})]
      BY <2>4, <1>t, OwnersRead DEF TypeOK, Scrape
    <3> QED BY <2>4, <3>1, <3>2 DEF TypeOK, docker, memory
  <2> QED BY <1>1, <2>1, <2>2, <2>3, <2>4 DEF CapturePrefix
<1>2. CASE PrepareRaftNetwork(p)
  <2>1. pc' \in [Proc -> Step] /\ networks' \in [Proc -> BOOLEAN]
    BY <1>2 DEF PrepareRaftNetwork, memory, Goto, RaftStep, TypeOK
  <2>2. network' \in Owner
    BY <1>2 DEF PrepareRaftNetwork, RemoveNetwork, Owner, TypeOK
  <2> QED BY <1>2, <2>1, <2>2 DEF PrepareRaftNetwork, memory, TypeOK
<1>3. CASE StartRaftPostgres(p)
  BY <1>3, ReplaceType, StartType DEF StartRaftPostgres, RaftStep, TypeOK
<1>4. CASE PrepareRaftTempDir(p)
  BY <1>4, <1>t, MakeTempDirType DEF PrepareRaftTempDir, RaftStep
<1>5. CASE RegisterRaftContainers(p)
  <2>1. PICK n \in todo[p] :
          /\ ReplaceContainer(p, n, IF todo[p] = {n} THEN "leader-run" ELSE "register")
          /\ todo' = [todo EXCEPT ![p] = IF todo[p] = {n} THEN RaftNode \ {Leader}
                                                          ELSE @ \ {n}]
    BY <1>5 DEF RegisterRaftContainers
  <2>2. n \in Name /\ todo' \in [Proc -> SUBSET RaftNode]
    BY <2>1 DEF TypeOK
  <2>3. (IF todo[p] = {n} THEN "leader-run" ELSE "register") \in Step
    BY DEF RaftStep
  <2> QED BY <2>1, <2>2, <2>3, ReplaceType
<1>6. CASE StartRaftLeader(p)
  BY <1>6, StartType DEF StartRaftLeader, RaftStep, TypeOK
<1>7. CASE StartRaftFollowers(p)
  <2>1. PICK n \in todo[p] :
          /\ StartContainer(p, n, IF todo[p] = {n} THEN "topology" ELSE "followers-run")
          /\ todo' = [todo EXCEPT ![p] = @ \ {n}]
    BY <1>7 DEF StartRaftFollowers
  <2>2. n \in Name /\ todo' \in [Proc -> SUBSET RaftNode]
    BY <2>1 DEF TypeOK
  <2>3. (IF todo[p] = {n} THEN "topology" ELSE "followers-run") \in Step
    BY DEF RaftStep
  <2> QED BY <2>1, <2>2, <2>3, StartType
<1>8. CASE CaptureRaft(p)
  BY <1>8, CaptureGroupType DEF CaptureRaft, Output, RaftStep, SealStep
<1>9. CASE StartSealFixture(p)
  <2>1. CASE pc[p] = "seal-mktemp" /\ MakeTempDir(p, "seal", "seal-run")
    BY <2>1, <1>t, MakeTempDirType DEF SealStep
  <2>2. CASE /\ Track(p, "seal")
             /\ RunContainer(p, "seal")
             /\ Goto(p, "seal")
             /\ UNCHANGED <<cur, todo, network, dirs, networks, tempDirs, fixture, result,
                            failures, crashes>>
    <3>1. pc' \in [Proc -> Step] /\ containers' \in [Proc -> SUBSET Name]
      BY <2>2 DEF TypeOK, Goto, Track, SealStep
    <3>2. /\ status' \in [Name -> {"absent", "created", "running", "exited"}]
          /\ owner' \in [Name -> Owner]
      BY <2>2 DEF TypeOK, RunContainer, Owner
    <3> QED BY <2>2, <3>1, <3>2 DEF TypeOK
  <2> QED BY <1>9, <2>1, <2>2 DEF StartSealFixture
<1>10. CASE CaptureSealLifecycle(p)
  <2>1. pc' \in [Proc -> Step] /\ result' \in [Proc -> {"none", "ok", "failed", "killed"}]
    BY <1>10 DEF CaptureSealLifecycle, TypeOK, Goto, CleanStep
  <2>2. fixture' \in [Output -> SUBSET (Owner \cup {Old})]
    BY <1>10, OwnersRead DEF CaptureSealLifecycle, TypeOK, Scrape, Output
  <2> QED BY <1>10, <2>1, <2>2 DEF CaptureSealLifecycle, TypeOK, docker, memory
<1> QED
  BY <1>1, <1>2, <1>3, <1>4, <1>5, <1>6, <1>7, <1>8, <1>9, <1>10 DEF Advance

LEMMA DisownType ==
    ASSUME TypeOK, NEW p \in Proc, NEW o \in {Stale, Leaked}, NEW kept \in SUBSET dirs,
           Disown(p, o, kept)
    PROVE  /\ owner' \in [Name -> Owner]
           /\ network' \in Owner
           /\ dirs' \in SUBSET (Owner \X TempDir)
<1>1. o \in Owner
  BY DEF Owner
<1>2. owner' \in [Name -> Owner] /\ network' \in Owner
  BY <1>1 DEF TypeOK, Disown
<1>3. ASSUME NEW d \in dirs
      PROVE  <<IF d[1] = p THEN o ELSE d[1], d[2]>> \in Owner \X TempDir
  BY <1>1 DEF TypeOK
<1> QED BY <1>2, <1>3 DEF Disown

LEMMA AbortType ==
    ASSUME TypeOK, NEW p \in Proc, Abort(p),
           status' \in [Name -> {"absent", "created", "running", "exited"}],
           owner' \in [Name -> Owner], failures' \in 0 .. MaxFailures,
           fixture' \in [Output -> SUBSET (Owner \cup {Old})]
    PROVE  TypeOK'
<1>1. pc' \in [Proc -> Step]
  BY Steps DEF Abort, Goto, TypeOK, CleanStep
<1>2. containers' \in [Proc -> SUBSET Name]
  BY NameFacts DEF Abort, TypeOK
<1>3. result' \in [Proc -> {"none", "ok", "failed", "killed"}]
  BY DEF Abort, TypeOK
<1> QED BY <1>1, <1>2, <1>3 DEF TypeOK, Abort

LEMMA FailType ==
    ASSUME TypeOK, NEW p \in Proc, Fail(p) \/ RunFailsAfterCreate(p)
    PROVE  TypeOK'
<1>1. failures' \in 0 .. MaxFailures
  BY CaptureAssumption DEF TypeOK, Fail, RunFailsAfterCreate
<1>2. /\ status' \in [Name -> {"absent", "created", "running", "exited"}]
      /\ owner' \in [Name -> Owner]
  BY DEF TypeOK, Fail, RunFailsAfterCreate, Owner
<1>3. fixture' \in [Output -> SUBSET (Owner \cup {Old})]
  <2>1. CASE UNCHANGED fixture
    BY <2>1 DEF TypeOK
  <2>2. CASE Used(p) # {} /\ fixture' = [fixture EXCEPT ![Group(p)] =
               @ \cup {owner[n] : n \in Used(p) \ {"postgres"}}]
    BY <2>2, OwnersRead, UsedGroup DEF TypeOK
  <2> QED BY <2>1, <2>2 DEF Fail, RunFailsAfterCreate
<1>4. Abort(p)
  BY DEF Fail, RunFailsAfterCreate
<1> QED BY <1>1, <1>2, <1>3, <1>4, AbortType

LEMMA CleanupType ==
    ASSUME TypeOK, NEW p \in Proc, Cleanup(p)
    PROVE  TypeOK'
<1> USE Steps
<1>1. CASE CleanContainers(p)
  <2>1. pc' \in [Proc -> Step]
    BY <1>1 DEF CleanContainers, TypeOK, Goto, CleanStep
  <2>2. containers' \in [Proc -> SUBSET Name]
    BY <1>1 DEF CleanContainers, TypeOK
  <2>3. CASE UNCHANGED <<status, owner>>
    BY <1>1, <2>1, <2>2, <2>3 DEF CleanContainers, TypeOK
  <2>4. ASSUME NEW n \in containers[p], RemoveContainer(n)
        PROVE  TypeOK'
    <3>1. /\ status' \in [Name -> {"absent", "created", "running", "exited"}]
          /\ owner' \in [Name -> Owner]
      BY <2>4 DEF RemoveContainer, TypeOK, Owner
    <3> QED BY <1>1, <2>1, <2>2, <3>1 DEF CleanContainers, TypeOK
  <2> QED BY <1>1, <2>3, <2>4 DEF CleanContainers
<1>2. CASE CleanNetwork(p)
  <2>1. pc' \in [Proc -> Step] /\ networks' \in [Proc -> BOOLEAN]
    BY <1>2 DEF CleanNetwork, TypeOK, Goto, CleanStep
  <2>2. network' \in Owner
    BY <1>2 DEF CleanNetwork, RemoveNetwork, TypeOK, Owner
  <2> QED BY <1>2, <2>1, <2>2 DEF CleanNetwork, TypeOK
<1>3. CASE CleanDirs(p)
  <2>1. Disown(p, Leaked, dirs \ ({p} \X tempDirs[p]))
    BY <1>3 DEF CleanDirs
  <2>2. pc' \in [Proc -> Step] /\ tempDirs' \in [Proc -> SUBSET TempDir]
    BY <1>3 DEF CleanDirs, TypeOK, Goto
  <2> QED BY <1>3, <2>1, <2>2, DisownType DEF CleanDirs, TypeOK
<1> QED BY <1>1, <1>2, <1>3 DEF Cleanup

LEMMA StartCrashExitType ==
    ASSUME TypeOK, (\E p \in Proc : Start(p) \/ Crash(p)) \/ (\E n \in Name : ContainerExit(n))
    PROVE  TypeOK'
<1> USE Steps
<1>1. ASSUME NEW p \in Proc, Start(p) PROVE TypeOK'
  <2>1. pc' \in [Proc -> Step] /\ cur' \in [Proc -> Prefix] /\ todo' \in [Proc -> SUBSET RaftNode]
    BY <1>1 DEF Start, TypeOK, Goto, PrefixStep, Prefix
  <2>2. /\ containers' \in [Proc -> SUBSET Name] /\ networks' \in [Proc -> BOOLEAN]
        /\ tempDirs' \in [Proc -> SUBSET TempDir]
        /\ result' \in [Proc -> {"none", "ok", "failed", "killed"}]
    BY <1>1 DEF Start, TypeOK
  <2>3. ASSUME NEW g \in Output
        PROVE  {IF o = p THEN Old ELSE o : o \in fixture[g]} \subseteq Owner \cup {Old}
    BY DEF TypeOK
  <2>4. fixture' \in [Output -> SUBSET (Owner \cup {Old})]
    BY <1>1, <2>3 DEF Start
  <2> QED BY <1>1, <2>1, <2>2, <2>4 DEF Start, TypeOK, docker
<1>2. ASSUME NEW p \in Proc, Crash(p) PROVE TypeOK'
  <2>1. Disown(p, Stale, dirs)
    BY <1>2 DEF Crash
  <2>2. /\ pc' \in [Proc -> Step] /\ crashes' \in 0 .. MaxCrashes
        /\ result' \in [Proc -> {"none", "ok", "failed", "killed"}]
    BY <1>2, CaptureAssumption DEF Crash, TypeOK, Goto
  <2> QED BY <1>2, <2>1, <2>2, DisownType DEF Crash, TypeOK, memory
<1>3. ASSUME NEW n \in Name, ContainerExit(n) PROVE TypeOK'
  BY <1>3, CaptureAssumption DEF ContainerExit, TypeOK, memory
<1> QED BY <1>1, <1>2, <1>3

\* Every variable stays within its type, whatever overlaps, fails or is killed:
\* the lists of captureRun only ever name containers and directories of the
\* fixture, and no step leaves the program's control flow.
THEOREM TypeCorrect == Spec => []TypeOK
<1>1. TypeOK /\ [Next]_vars => TypeOK'
  <2> SUFFICES ASSUME TypeOK, [Next]_vars PROVE TypeOK'
    OBVIOUS
  <2>1. CASE UNCHANGED vars
    BY <2>1 DEF vars, docker, memory, TypeOK
  <2>2. CASE Next
    BY <2>2, AdvanceType, FailType, CleanupType, StartCrashExitType DEF Next, Run
  <2> QED BY <2>1, <2>2
<1> QED BY <1>1, InitType, PTL DEF Spec

-----------------------------------------------------------------------------
(***************************************************************************)
(* NoLeak.                                                                  *)
(***************************************************************************)

\* A step of p leaves the other invocations' program state alone, and gives
\* them nothing: it may only take containers away from them.
Frame(p) ==
    /\ \A q \in Proc \ {p} :
         /\ pc'[q] = pc[q] /\ cur'[q] = cur[q] /\ todo'[q] = todo[q]
         /\ containers'[q] = containers[q] /\ tempDirs'[q] = tempDirs[q]
    /\ \A q \in (Proc \ {p}) \cup {Leaked} :
         /\ \A n \in Name : owner'[n] = q => owner[n] = q
         /\ \A d \in dirs' : d[1] = q => d \in dirs

LEMMA FrameLemma ==
    ASSUME LeakInv, NEW p \in Proc, Frame(p), LeakAt(p)'
    PROVE  LeakInv'
<1>1. NoLeak'
  BY DEF LeakInv, NoLeak, Frame
<1>2. ASSUME NEW q \in Proc \ {p} PROVE LeakAt(q)'
  <2>1. LeakAt(q)
    BY DEF LeakInv
  <2>2. OwnedIsTracked(q)'
    BY <2>1 DEF LeakAt, OwnedIsTracked, Frame
  <2>3. StartIsTracked(q)' /\ CleanedInOrder(q)'
    BY <2>1 DEF LeakAt, StartIsTracked, CleanedInOrder, Frame
  <2>4. IdleOwnsNothing(q)'
    BY <2>1 DEF LeakAt, IdleOwnsNothing, Frame
  <2> QED BY <2>2, <2>3, <2>4 DEF LeakAt
<1> QED BY <1>1, <1>2 DEF LeakInv

LEMMA ProcFacts ==
    ASSUME NEW p \in Proc
    PROVE  p # Free /\ p # Stale /\ p # Leaked
  BY CaptureAssumption

LEMMA MakeTempDirLeak ==
    ASSUME TypeOK, LeakInv, NEW p \in Proc, NEW d \in TempDir, NEW next,
           MakeTempDir(p, d, next),
           \/ pc[p] = "mktemp" /\ next = "replace"
           \/ pc[p] = "raft-mktemp" /\ next = "register"
           \/ pc[p] = "seal-mktemp" /\ next = "seal-run"
    PROVE  LeakInv'
<1> USE DEF MakeTempDir, Goto, TypeOK
<1>0. /\ dirs' = dirs \cup {<<p, d>>} /\ tempDirs'[p] = tempDirs[p] \cup {d}
      /\ <<p, d>>[1] = p /\ <<p, d>>[2] = d
  OBVIOUS
<1>1. Frame(p)
  <2>1. ASSUME NEW q \in (Proc \ {p}) \cup {Leaked}
        PROVE  \A e \in dirs' : e[1] = q => e \in dirs
    BY <1>0, ProcFacts
  <2> QED BY <2>1 DEF Frame
<1>2. LeakAt(p)
  BY DEF LeakInv
<1>3. OwnedIsTracked(p)'
  <2>1. \A e \in dirs : e[1] = p => e[2] \in tempDirs[p]
    BY <1>2 DEF LeakAt, OwnedIsTracked
  <2>2. \A e \in dirs' : e[1] = p => e[2] \in tempDirs'[p]
    BY <1>0, <2>1
  <2> QED BY <1>2, <2>2 DEF LeakAt, OwnedIsTracked
<1>4. StartIsTracked(p)' /\ CleanedInOrder(p)' /\ IdleOwnsNothing(p)'
  BY <1>2 DEF LeakAt, StartIsTracked, CleanedInOrder, IdleOwnsNothing, BeforeRegister, PrefixStep
<1> QED BY <1>1, <1>3, <1>4, FrameLemma DEF LeakAt

LEMMA ReplaceLeak ==
    ASSUME TypeOK, LeakInv, NEW p \in Proc, NEW n \in Name, NEW next,
           ReplaceContainer(p, n, next), todo' \in [Proc -> SUBSET RaftNode],
           \A q \in Proc \ {p} : todo'[q] = todo[q],
           \/ pc[p] = "replace" /\ next = "run" /\ n = cur[p] /\ todo' = todo
           \/ /\ pc[p] = "postgres-replace" /\ next = "postgres-run"
              /\ n = "postgres" /\ todo' = todo
           \/ pc[p] = "register" /\ next = "register" /\ todo'[p] = todo[p] \ {n}
           \/ pc[p] = "register" /\ next = "leader-run" /\ todo[p] = {n}
    PROVE  LeakInv'
<1> USE DEF ReplaceContainer, RemoveContainer, Track, Goto, TypeOK
<1>1. Frame(p)
  <2>1. \A q \in (Proc \ {p}) \cup {Leaked} : \A m \in Name : owner'[m] = q => owner[m] = q
    BY CaptureAssumption DEF Free, Leaked
  <2> QED BY <2>1 DEF Frame
<1>2. LeakAt(p)
  BY DEF LeakInv
<1>3. OwnedIsTracked(p)'
  BY <1>2, ProcFacts DEF LeakAt, OwnedIsTracked
<1>4. StartIsTracked(p)' /\ CleanedInOrder(p)' /\ IdleOwnsNothing(p)'
  BY <1>2 DEF LeakAt, StartIsTracked, CleanedInOrder, IdleOwnsNothing, BeforeRegister, PrefixStep
<1> QED BY <1>1, <1>3, <1>4, FrameLemma DEF LeakAt

LEMMA StartLeak ==
    ASSUME TypeOK, LeakInv, NEW p \in Proc, NEW n \in Name, NEW next,
           StartContainer(p, n, next), todo' \in [Proc -> SUBSET RaftNode],
           \A q \in Proc \ {p} : todo'[q] = todo[q],
           n \in containers[p],
           \/ pc[p] = "run" /\ next = "exercise" /\ todo' = todo
           \/ pc[p] = "postgres-run" /\ next = "raft-mktemp" /\ todo' = todo
           \/ pc[p] \in {"leader-run", "followers-run"} /\ next \in {"followers-run", "topology"}
    PROVE  LeakInv'
<1> USE DEF StartContainer, RunContainer, memory, Goto, TypeOK
<1>1. Frame(p)
  BY ProcFacts DEF Frame
<1>2. LeakAt(p)
  BY DEF LeakInv
<1>3. OwnedIsTracked(p)'
  BY <1>2 DEF LeakAt, OwnedIsTracked
<1>4. StartIsTracked(p)' /\ CleanedInOrder(p)' /\ IdleOwnsNothing(p)'
  BY <1>2 DEF LeakAt, StartIsTracked, CleanedInOrder, IdleOwnsNothing, BeforeRegister, PrefixStep
<1> QED BY <1>1, <1>3, <1>4, FrameLemma DEF LeakAt

\* A step that starts, removes and forgets nothing and moves the run on.
LEMMA MoveLeak ==
    ASSUME TypeOK, LeakInv, NEW p \in Proc, NEW next,
           UNCHANGED <<todo, owner, dirs, containers, tempDirs>>,
           Goto(p, next), \A q \in Proc \ {p} : cur'[q] = cur[q],
           \/ pc[p] \in {"exercise", "network-rm", "network-create"}
              /\ next \in {"mktemp", "network-rm", "network-create", "postgres-replace"}
           \/ next \in {"workload", "cluster", "seal-mktemp", "clean-containers", "clean-dirs"}
              /\ (next = "clean-dirs" => containers[p] = {})
    PROVE  LeakInv'
<1> USE DEF Goto, TypeOK
<1>1. Frame(p)
  BY DEF Frame
<1>2. LeakAt(p)
  BY DEF LeakInv
<1>3. OwnedIsTracked(p)'
  BY <1>2 DEF LeakAt, OwnedIsTracked
<1>4. StartIsTracked(p)' /\ CleanedInOrder(p)' /\ IdleOwnsNothing(p)'
  BY <1>2 DEF LeakAt, StartIsTracked, CleanedInOrder, IdleOwnsNothing, BeforeRegister, PrefixStep
<1> QED BY <1>1, <1>3, <1>4, FrameLemma DEF LeakAt

LEMMA AdvanceLeak ==
    ASSUME TypeOK, LeakInv, NEW p \in Proc, Advance(p)
    PROVE  LeakInv'
<1> USE NameFacts
<1>t. /\ cur[p] \in Name /\ cur[p] \in TempDir /\ "raft" \in TempDir /\ "seal" \in TempDir
  BY DEF TypeOK, TempDir
<1>i. StartIsTracked(p)
  BY DEF LeakInv, LeakAt
<1>1. CASE CapturePrefix(p)
  <2>1. CASE pc[p] = "mktemp" /\ MakeTempDir(p, cur[p], "replace")
    BY <2>1, <1>t, MakeTempDirLeak
  <2>2. CASE pc[p] = "replace" /\ ReplaceContainer(p, cur[p], "run") /\ UNCHANGED todo
    BY <2>2, <1>t, ReplaceLeak DEF TypeOK
  <2>3. CASE pc[p] = "run" /\ StartContainer(p, cur[p], "exercise") /\ UNCHANGED todo
    BY <2>3, <1>t, <1>i, StartLeak DEF TypeOK, StartIsTracked
  <2>4. CASE /\ pc[p] = "exercise"
             /\ Goto(p, IF cur[p] = "vault" THEN "mktemp" ELSE "network-rm")
             /\ cur' = [cur EXCEPT ![p] = "openbao"]
             /\ UNCHANGED <<todo, docker, memory, result, failures, crashes>>
    <3>1. \A q \in Proc \ {p} : cur'[q] = cur[q]
      BY <2>4 DEF TypeOK
    <3>2. UNCHANGED <<todo, owner, dirs, containers, tempDirs>>
      BY <2>4 DEF docker, memory
    <3> QED BY <2>4, <3>1, <3>2, MoveLeak
  <2> QED BY <1>1, <2>1, <2>2, <2>3, <2>4 DEF CapturePrefix
<1>2. CASE PrepareRaftNetwork(p)
  <2>1. UNCHANGED <<todo, owner, dirs, containers, tempDirs>> /\ UNCHANGED cur
    BY <1>2 DEF PrepareRaftNetwork, memory
  <2>2. \/ pc[p] = "network-rm" /\ Goto(p, "network-create")
        \/ pc[p] = "network-create" /\ Goto(p, "postgres-replace")
    BY <1>2 DEF PrepareRaftNetwork
  <2> QED BY <2>1, <2>2, MoveLeak
<1>3. CASE StartRaftPostgres(p)
  <2>1. CASE pc[p] = "postgres-replace" /\ ReplaceContainer(p, "postgres", "postgres-run")
    BY <1>3, <2>1, ReplaceLeak DEF StartRaftPostgres, TypeOK
  <2>2. CASE pc[p] = "postgres-run" /\ StartContainer(p, "postgres", "raft-mktemp")
    BY <1>3, <2>2, <1>i, StartLeak DEF StartRaftPostgres, TypeOK, StartIsTracked
  <2> QED BY <1>3, <2>1, <2>2 DEF StartRaftPostgres
<1>4. CASE PrepareRaftTempDir(p)
  BY <1>4, <1>t, MakeTempDirLeak DEF PrepareRaftTempDir
<1>5. CASE RegisterRaftContainers(p)
  <2>1. PICK n \in todo[p] :
          /\ ReplaceContainer(p, n, IF todo[p] = {n} THEN "leader-run" ELSE "register")
          /\ todo' = [todo EXCEPT ![p] = IF todo[p] = {n} THEN RaftNode \ {Leader}
                                                          ELSE @ \ {n}]
    BY <1>5 DEF RegisterRaftContainers
  <2>2. n \in Name /\ todo' \in [Proc -> SUBSET RaftNode] /\ pc[p] = "register"
    BY <1>5, <2>1 DEF TypeOK, RegisterRaftContainers
  <2>3. \A q \in Proc \ {p} : todo'[q] = todo[q]
    BY <2>1 DEF TypeOK
  <2>4. CASE todo[p] = {n}
    BY <2>1, <2>2, <2>3, <2>4, ReplaceLeak
  <2>5. CASE todo[p] # {n}
    <3>1. ReplaceContainer(p, n, "register") /\ todo'[p] = todo[p] \ {n}
      BY <2>1, <2>5 DEF TypeOK
    <3> QED BY <2>2, <2>3, <3>1, ReplaceLeak
  <2> QED BY <2>4, <2>5
<1>6. CASE StartRaftLeader(p)
  <2>1. /\ pc[p] = "leader-run" /\ UNCHANGED todo
        /\ StartContainer(p, Leader, "followers-run")
    BY <1>6 DEF StartRaftLeader
  <2>2. Leader \in containers[p]
    BY <1>i, <2>1, CaptureAssumption DEF StartIsTracked
  <2> QED BY <2>1, <2>2, StartLeak DEF TypeOK
<1>7. CASE StartRaftFollowers(p)
  <2>1. PICK n \in todo[p] :
          /\ StartContainer(p, n, IF todo[p] = {n} THEN "topology" ELSE "followers-run")
          /\ todo' = [todo EXCEPT ![p] = @ \ {n}]
    BY <1>7 DEF StartRaftFollowers
  <2>2. n \in RaftNode /\ todo' \in [Proc -> SUBSET RaftNode] /\ pc[p] = "followers-run"
    BY <1>7, <2>1 DEF TypeOK, StartRaftFollowers
  <2>3. n \in Name /\ n \in containers[p] /\ \A q \in Proc \ {p} : todo'[q] = todo[q]
    BY <1>i, <2>1, <2>2 DEF TypeOK, StartIsTracked
  <2> QED BY <2>1, <2>2, <2>3, StartLeak
<1>8. CASE CaptureRaft(p)
  BY <1>8, MoveLeak DEF CaptureRaft, CaptureGroup, docker, memory
<1>9. CASE StartSealFixture(p)
  <2>1. CASE pc[p] = "seal-mktemp" /\ MakeTempDir(p, "seal", "seal-run")
    BY <2>1, <1>t, MakeTempDirLeak
  <2>2. CASE /\ pc[p] = "seal-run"
             /\ Track(p, "seal")
             /\ RunContainer(p, "seal")
             /\ Goto(p, "seal")
             /\ UNCHANGED <<cur, todo, network, dirs, networks, tempDirs, fixture, result,
                            failures, crashes>>
    <3> USE <2>2 DEF Track, RunContainer, Goto, TypeOK
    <3>1. Frame(p)
      BY ProcFacts DEF Frame
    <3>2. LeakAt(p)
      BY DEF LeakInv
    <3>3. OwnedIsTracked(p)'
      BY <3>2 DEF LeakAt, OwnedIsTracked
    <3>4. StartIsTracked(p)' /\ CleanedInOrder(p)' /\ IdleOwnsNothing(p)'
      BY <3>2 DEF LeakAt, StartIsTracked, CleanedInOrder, IdleOwnsNothing, BeforeRegister,
           PrefixStep
    <3> QED BY <3>1, <3>3, <3>4, FrameLemma DEF LeakAt
  <2> QED BY <1>9, <2>1, <2>2 DEF StartSealFixture
<1>10. CASE CaptureSealLifecycle(p)
  BY <1>10, MoveLeak DEF CaptureSealLifecycle, docker, memory
<1> QED
  BY <1>1, <1>2, <1>3, <1>4, <1>5, <1>6, <1>7, <1>8, <1>9, <1>10 DEF Advance

LEMMA FailLeak ==
    ASSUME TypeOK, LeakInv, NEW p \in Proc, Fail(p) \/ RunFailsAfterCreate(p)
    PROVE  LeakInv'
<1> USE NameFacts DEF TypeOK
<1>1. /\ Abort(p)
      /\ \/ UNCHANGED owner
         \/ \E n \in RunNames(p) : owner' = [owner EXCEPT ![n] = p]
  BY DEF Fail, RunFailsAfterCreate
<1>2. LeakAt(p)
  BY DEF LeakInv
<1>3. /\ pc'[p] = "clean-containers" /\ containers[p] \subseteq containers'[p]
      /\ pc[p] = "seal-run" => "seal" \in containers'[p]
      /\ UNCHANGED <<cur, todo, dirs, tempDirs>>
      /\ \A q \in Proc \ {p} : pc'[q] = pc[q] /\ containers'[q] = containers[q]
  <2>1. /\ pc' = [pc EXCEPT ![p] = "clean-containers"]
        /\ containers' = [containers EXCEPT ![p] =
                            IF pc[p] = "seal-run" THEN @ \cup {"seal"} ELSE @]
        /\ UNCHANGED <<cur, todo, dirs, tempDirs>>
    BY <1>1 DEF Abort, Goto
  <2>2. containers'[p] = IF pc[p] = "seal-run" THEN containers[p] \cup {"seal"} ELSE containers[p]
    BY <2>1
  <2> QED BY <2>1, <2>2
<1>4. RunNames(p) \subseteq containers'[p]
  <2>1. ASSUME NEW n \in RunNames(p) PROVE n \in containers'[p]
    <3>1. \/ pc[p] = "run" /\ n = cur[p]
          \/ pc[p] = "postgres-run" /\ n = "postgres"
          \/ pc[p] = "leader-run" /\ n \in RaftNode
          \/ pc[p] = "followers-run" /\ n \in RaftNode
          \/ pc[p] = "seal-run" /\ n = "seal"
      BY CaptureAssumption DEF RunNames
    <3> QED BY <1>2, <1>3, <3>1 DEF LeakAt, StartIsTracked
  <2> QED BY <2>1
<1>5. Frame(p)
  <2>1. \A q \in (Proc \ {p}) \cup {Leaked} : \A n \in Name : owner'[n] = q => owner[n] = q
    BY <1>1, ProcFacts
  <2> QED BY <1>3, <2>1 DEF Frame
<1>6. OwnedIsTracked(p)'
  <2>1. ASSUME NEW n \in Name, owner'[n] = p PROVE n \in containers'[p]
    <3>1. owner[n] = p \/ n \in RunNames(p)
      BY <1>1, <2>1
    <3> QED BY <1>2, <1>3, <1>4, <3>1 DEF LeakAt, OwnedIsTracked
  <2> QED BY <1>2, <1>3, <2>1 DEF LeakAt, OwnedIsTracked
<1>7. StartIsTracked(p)' /\ CleanedInOrder(p)' /\ IdleOwnsNothing(p)'
  BY <1>3 DEF StartIsTracked, CleanedInOrder, IdleOwnsNothing, BeforeRegister, PrefixStep
<1> QED BY <1>5, <1>6, <1>7, FrameLemma DEF LeakAt

LEMMA CleanupLeak ==
    ASSUME TypeOK, LeakInv, NEW p \in Proc, Cleanup(p)
    PROVE  LeakInv'
<1>2. LeakAt(p)
  BY DEF LeakInv
<1>1. CASE CleanContainers(p)
  <2>1. CASE containers[p] = {} /\ Goto(p, "clean-network")
             /\ UNCHANGED <<status, owner, containers>>
    <3> USE <1>1, <2>1 DEF CleanContainers, Goto, TypeOK
    <3>1. Frame(p)
      BY DEF Frame
    <3>2. OwnedIsTracked(p)'
      BY <1>2 DEF LeakAt, OwnedIsTracked
    <3>3. StartIsTracked(p)' /\ CleanedInOrder(p)' /\ IdleOwnsNothing(p)'
      BY DEF StartIsTracked, CleanedInOrder, IdleOwnsNothing, BeforeRegister, PrefixStep
    <3> QED BY <3>1, <3>2, <3>3, FrameLemma DEF LeakAt
  <2>2. ASSUME NEW n \in containers[p], RemoveContainer(n),
               containers' = [containers EXCEPT ![p] = @ \ {n}], UNCHANGED pc
        PROVE  LeakInv'
    <3>0. /\ \A m \in Name : owner'[m] = IF m = n THEN Free ELSE owner[m]
          /\ containers'[p] = containers[p] \ {n} /\ pc[p] = "clean-containers"
          /\ \A q \in Proc \ {p} : containers'[q] = containers[q]
          /\ UNCHANGED <<pc, cur, todo, dirs, tempDirs>>
      BY <1>1, <2>2 DEF CleanContainers, RemoveContainer, TypeOK
    <3>f. \A q \in Proc \cup {Leaked} : q # Free
      BY ProcFacts DEF Free, Leaked
    <3>1. Frame(p)
      BY <3>0, <3>f DEF Frame
    <3>2. OwnedIsTracked(p)'
      BY <1>2, <3>0, <3>f DEF LeakAt, OwnedIsTracked
    <3>3. StartIsTracked(p)' /\ CleanedInOrder(p)' /\ IdleOwnsNothing(p)'
      BY <3>0 DEF StartIsTracked, CleanedInOrder, IdleOwnsNothing, BeforeRegister, PrefixStep
    <3> QED BY <3>1, <3>2, <3>3, FrameLemma DEF LeakAt
  <2> QED BY <1>1, <2>1, <2>2 DEF CleanContainers
<1>3. CASE CleanNetwork(p)
  <2>1. UNCHANGED <<todo, owner, dirs, containers, tempDirs, cur>> /\ Goto(p, "clean-dirs")
    BY <1>3 DEF CleanNetwork
  <2>2. containers[p] = {}
    BY <1>2, <1>3 DEF LeakAt, CleanedInOrder, CleanNetwork
  <2> QED BY <2>1, <2>2, MoveLeak
<1>4. CASE CleanDirs(p)
  <2> USE <1>4 DEF CleanDirs, Disown, Goto
  <2>0. containers[p] = {} /\ pc'[p] = "idle"
    BY <1>2 DEF LeakAt, CleanedInOrder, TypeOK
  <2>1. \A n \in Name : owner[n] # p
    BY <1>2, <2>0 DEF LeakAt, OwnedIsTracked
  <2>2. owner' = owner
    BY <2>1 DEF TypeOK
  <2>3. ASSUME NEW d \in dirs \ ({p} \X tempDirs[p])
        PROVE  d[1] # p /\ d = <<d[1], d[2]>>
    <3> HIDE DEF CleanDirs, Disown, Goto
    <3>1. d \in Owner \X TempDir
      BY DEF TypeOK
    <3>2. d = <<d[1], d[2]>>
      BY <3>1
    <3>3. d[1] = p => d[2] \in tempDirs[p]
      BY <1>2 DEF LeakAt, OwnedIsTracked
    <3>4. d \notin {p} \X tempDirs[p]
      OBVIOUS
    <3>5. d[1] = p => d \in {p} \X tempDirs[p]
      BY <3>2, <3>3
    <3> QED BY <3>2, <3>4, <3>5
  <2>4. ASSUME NEW d \in dirs'
        PROVE  d \in dirs /\ d[1] # p
    <3>1. PICK e \in dirs \ ({p} \X tempDirs[p]) :
            d = <<IF e[1] = p THEN Leaked ELSE e[1], e[2]>>
      OBVIOUS
    <3> QED BY <2>3, <3>1
  <2>5. Frame(p)
    BY <2>2, <2>4 DEF Frame, TypeOK
  <2>6. OwnedIsTracked(p)' /\ IdleOwnsNothing(p)'
    BY <2>1, <2>2, <2>4 DEF OwnedIsTracked, IdleOwnsNothing
  <2>7. StartIsTracked(p)' /\ CleanedInOrder(p)'
    BY <2>0 DEF StartIsTracked, CleanedInOrder, BeforeRegister, PrefixStep
  <2> QED BY <2>5, <2>6, <2>7, FrameLemma DEF LeakAt
<1> QED BY <1>1, <1>3, <1>4 DEF Cleanup

LEMMA StartCrashExitLeak ==
    ASSUME TypeOK, LeakInv,
           (\E p \in Proc : Start(p) \/ Crash(p)) \/ (\E n \in Name : ContainerExit(n))
    PROVE  LeakInv'
<1>1. ASSUME NEW p \in Proc, Start(p) PROVE LeakInv'
  <2> USE <1>1 DEF Start, Goto, docker
  <2>1. Frame(p)
    BY DEF Frame, TypeOK
  <2>2. OwnedIsTracked(p)'
    BY DEF LeakInv, LeakAt, IdleOwnsNothing, OwnedIsTracked
  <2>3. StartIsTracked(p)' /\ CleanedInOrder(p)' /\ IdleOwnsNothing(p)'
    BY DEF StartIsTracked, CleanedInOrder, IdleOwnsNothing, BeforeRegister, PrefixStep, TypeOK
  <2> QED BY <2>1, <2>2, <2>3, FrameLemma DEF LeakAt
<1>2. ASSUME NEW p \in Proc, Crash(p) PROVE LeakInv'
  <2> USE <1>2 DEF Crash, Disown, Goto, memory
  <2>1. \A n \in Name : owner'[n] = IF owner[n] = p THEN Stale ELSE owner[n]
    OBVIOUS
  <2>2. ASSUME NEW d \in dirs'
        PROVE  d[1] # p /\ (d \in dirs \/ d[1] = Stale)
    <3>1. PICK e \in dirs : d = <<IF e[1] = p THEN Stale ELSE e[1], e[2]>>
      OBVIOUS
    <3>2. e \in Owner \X TempDir
      BY DEF TypeOK
    <3>3. e = <<e[1], e[2]>>
      BY <3>2
    <3>4. d[1] = IF e[1] = p THEN Stale ELSE e[1]
      BY <3>1
    <3> QED BY <3>1, <3>3, <3>4, ProcFacts
  <2>3. Frame(p)
    <3>1. \A q \in (Proc \ {p}) \cup {Leaked} : q # Stale
      BY ProcFacts DEF Stale, Leaked
    <3>2. \A q \in (Proc \ {p}) \cup {Leaked} :
            /\ \A n \in Name : owner'[n] = q => owner[n] = q
            /\ \A d \in dirs' : d[1] = q => d \in dirs
      BY <2>1, <2>2, <3>1
    <3> QED BY <3>2 DEF Frame, TypeOK
  <2>4. OwnedIsTracked(p)' /\ IdleOwnsNothing(p)'
    <3>1. \A n \in Name : owner'[n] # p
      BY <2>1, ProcFacts
    <3> QED BY <2>2, <3>1 DEF OwnedIsTracked, IdleOwnsNothing
  <2>5. StartIsTracked(p)' /\ CleanedInOrder(p)'
    BY DEF StartIsTracked, CleanedInOrder, BeforeRegister, PrefixStep, TypeOK
  <2> QED BY <2>3, <2>4, <2>5, FrameLemma DEF LeakAt
<1>3. ASSUME NEW n \in Name, ContainerExit(n) PROVE LeakInv'
  BY <1>3 DEF ContainerExit, memory, LeakInv, NoLeak, LeakAt, OwnedIsTracked, StartIsTracked,
       CleanedInOrder, IdleOwnsNothing
<1> QED BY <1>1, <1>2, <1>3

LEMMA LeakStep == TypeOK /\ LeakInv /\ [Next]_vars => LeakInv'
<1> SUFFICES ASSUME TypeOK, LeakInv, [Next]_vars PROVE LeakInv'
  OBVIOUS
<1>1. CASE UNCHANGED vars
  BY <1>1 DEF vars, docker, memory, LeakInv, NoLeak, LeakAt, OwnedIsTracked, StartIsTracked,
       CleanedInOrder, IdleOwnsNothing
<1>2. CASE Next
  BY <1>2, AdvanceLeak, FailLeak, CleanupLeak, StartCrashExitLeak DEF Next, Run
<1> QED BY <1>1, <1>2

LEMMA InitLeak == Init => LeakInv
  BY CaptureAssumption DEF Init, LeakInv, NoLeak, LeakAt, OwnedIsTracked, StartIsTracked,
       CleanedInOrder, IdleOwnsNothing, BeforeRegister, PrefixStep, Free, Leaked

\* However many invocations overlap on the same names and whatever fails or is
\* killed, a run that reaches its own cleanup leaves no container and no
\* temporary directory it started.
THEOREM CleanupLeavesNothing == Spec => []NoLeak
<1>1. LeakInv => NoLeak
  BY DEF LeakInv
<1> QED BY <1>1, InitLeak, LeakStep, TypeCorrect, PTL DEF Spec

-----------------------------------------------------------------------------
(***************************************************************************)
(* HostClean: somebody still has every present thing on its list.           *)
(***************************************************************************)

\* The steps in which `docker run` may attach a container to the network.
NetworkStep == {"postgres-replace", "postgres-run", "raft-mktemp", "register",
                "leader-run", "followers-run"}

PresentIsOwned == \A n \in Name : status[n] # "absent" => owner[n] # Free

NoneStale ==
    crashes = 0 => /\ \A n \in Name : owner[n] # Stale
                   /\ \A d \in dirs : d[1] \in Proc

\* Who attached a container will call `network rm` after removing it ...
NetworkRemembered(p) ==
    pc[p] \in NetworkStep \/ (\E n \in Networked : owner[n] = p) => networks[p]

\* ... and does so before it ends, so one of the invocations that wait for each
\* other's containers is the last to try.
NetworkForgotten(p) == crashes = 0 /\ networks[p] => pc[p] \notin {"clean-dirs", "idle"}
NetworkAwaited == crashes = 0 /\ network # Free => \E p \in Proc : networks[p]

HostInv ==
    /\ PresentIsOwned /\ NoneStale /\ NetworkAwaited
    /\ \A p \in Proc : NetworkRemembered(p) /\ NetworkForgotten(p)

\* A step of p that leaves the network alone: containers it removes or starts,
\* the latter on the network only in the steps for that.
Attaches(p) ==
    /\ UNCHANGED <<network, networks, crashes>>
    /\ \A q \in Proc \ {p} : pc'[q] = pc[q]
    /\ pc'[p] \in NetworkStep => pc[p] \in NetworkStep
    /\ pc'[p] \notin {"clean-dirs", "idle"}
    /\ \A d \in dirs' : d \in dirs \/ d[1] = p
    /\ \A n \in Name :
         \/ owner'[n] = owner[n] /\ (status'[n] = "absent" \/ status[n] # "absent")
         \/ owner'[n] = Free /\ status'[n] = "absent"
         \/ owner'[n] = p /\ (n \in Networked => pc[p] \in NetworkStep)

LEMMA NetworkedNames == Networked \subseteq Name
  BY DEF Networked, Name

LEMMA AttachesHost ==
    ASSUME HostInv, NEW p \in Proc, Attaches(p)
    PROVE  HostInv'
<1> USE ProcFacts, NetworkedNames
<1>1. PresentIsOwned'
  BY DEF HostInv, PresentIsOwned, Attaches
<1>2. NoneStale'
  <2>1. Free # Stale
    BY DEF Free, Stale
  <2> QED BY <2>1 DEF HostInv, NoneStale, Attaches
<1>3. NetworkAwaited'
  BY DEF HostInv, NetworkAwaited, Attaches
<1>4. ASSUME NEW q \in Proc PROVE NetworkRemembered(q)' /\ NetworkForgotten(q)'
  <2>1. NetworkRemembered(q) /\ NetworkForgotten(q)
    BY DEF HostInv
  <2>2. NetworkRemembered(q)'
    BY <2>1 DEF NetworkRemembered, Attaches
  <2>3. NetworkForgotten(q)'
    BY <2>1 DEF NetworkForgotten, Attaches
  <2> QED BY <2>2, <2>3
<1> QED BY <1>1, <1>2, <1>3, <1>4 DEF HostInv

LEMMA MakeTempDirHost ==
    ASSUME TypeOK, HostInv, NEW p \in Proc, NEW d, NEW next, MakeTempDir(p, d, next),
           \/ next \in {"replace", "seal-run"}
           \/ next = "register" /\ pc[p] = "raft-mktemp"
    PROVE  HostInv'
<1>1. Attaches(p)
  BY DEF Attaches, MakeTempDir, Goto, NetworkStep, TypeOK
<1> QED BY <1>1, AttachesHost

LEMMA ReplaceHost ==
    ASSUME TypeOK, HostInv, NEW p \in Proc, NEW n \in Name, NEW next,
           ReplaceContainer(p, n, next),
           \/ next = "run"
           \/ pc[p] \in NetworkStep /\ next \in NetworkStep
    PROVE  HostInv'
<1>1. Attaches(p)
  BY DEF Attaches, ReplaceContainer, RemoveContainer, Goto, NetworkStep, TypeOK
<1> QED BY <1>1, AttachesHost

LEMMA StartHost ==
    ASSUME TypeOK, HostInv, NEW p \in Proc, NEW n \in Name, NEW next,
           StartContainer(p, n, next), n \in Networked => pc[p] \in NetworkStep,
           \/ next \in {"exercise", "topology"}
           \/ pc[p] \in NetworkStep /\ next \in NetworkStep
    PROVE  HostInv'
<1>1. Attaches(p)
  BY DEF Attaches, StartContainer, RunContainer, Goto, memory, NetworkStep, TypeOK
<1> QED BY <1>1, AttachesHost

\* Steps that only read what Docker runs.
LEMMA MoveHost ==
    ASSUME TypeOK, HostInv, NEW p \in Proc, NEW next, Goto(p, next),
           UNCHANGED <<status, owner, network, dirs, networks, crashes>>,
           next \in {"mktemp", "network-rm", "workload", "cluster", "seal-mktemp",
                     "clean-containers"}
    PROVE  HostInv'
<1>1. Attaches(p)
  BY DEF Attaches, Goto, NetworkStep, TypeOK
<1> QED BY <1>1, AttachesHost

LEMMA NetworkHost ==
    ASSUME TypeOK, HostInv, NEW p \in Proc, PrepareRaftNetwork(p)
    PROVE  HostInv'
<1> USE DEF HostInv, PresentIsOwned, NoneStale, NetworkAwaited, NetworkRemembered,
            NetworkForgotten, NetworkStep, Goto, TypeOK
<1>1. CASE /\ pc[p] = "network-rm"
           /\ RemoveNetwork
           /\ Goto(p, "network-create")
           /\ UNCHANGED <<cur, todo, status, owner, dirs, memory, fixture, result,
                          failures, crashes>>
  BY <1>1 DEF RemoveNetwork, memory
<1>2. CASE /\ pc[p] = "network-create"
           /\ network = Free
           /\ network' = p
           /\ networks' = [networks EXCEPT ![p] = TRUE]
           /\ Goto(p, "postgres-replace")
           /\ UNCHANGED <<cur, todo, status, owner, dirs, containers, tempDirs, fixture,
                          result, failures, crashes>>
  BY <1>2
<1> QED BY <1>1, <1>2 DEF PrepareRaftNetwork

LEMMA AdvanceHost ==
    ASSUME TypeOK, HostInv, NEW p \in Proc, Advance(p)
    PROVE  HostInv'
<1> USE NameFacts
<1>n. "vault" \notin Networked /\ "openbao" \notin Networked /\ "seal" \notin Networked
  BY CaptureAssumption DEF Networked, Prefix
<1>1. CASE CapturePrefix(p)
  <2>1. CASE pc[p] = "mktemp" /\ MakeTempDir(p, cur[p], "replace")
    BY <2>1, MakeTempDirHost
  <2>2. CASE pc[p] = "replace" /\ ReplaceContainer(p, cur[p], "run") /\ UNCHANGED todo
    BY <2>2, ReplaceHost DEF TypeOK
  <2>3. CASE pc[p] = "run" /\ StartContainer(p, cur[p], "exercise") /\ UNCHANGED todo
    <3>1. cur[p] \in Name /\ cur[p] \notin Networked
      BY <1>n DEF TypeOK, Prefix
    <3> QED BY <2>3, <3>1, StartHost
  <2>4. CASE /\ pc[p] = "exercise"
             /\ Goto(p, IF cur[p] = "vault" THEN "mktemp" ELSE "network-rm")
             /\ UNCHANGED <<todo, docker, memory, result, failures, crashes>>
    BY <2>4, MoveHost DEF docker, memory
  <2> QED BY <1>1, <2>1, <2>2, <2>3, <2>4 DEF CapturePrefix
<1>2. CASE PrepareRaftNetwork(p)
  BY <1>2, NetworkHost
<1>3. CASE StartRaftPostgres(p)
  BY <1>3, ReplaceHost, StartHost DEF StartRaftPostgres, NetworkStep
<1>4. CASE PrepareRaftTempDir(p)
  BY <1>4, MakeTempDirHost DEF PrepareRaftTempDir
<1>5. CASE RegisterRaftContainers(p)
  <2>1. PICK n \in todo[p] :
          ReplaceContainer(p, n, IF todo[p] = {n} THEN "leader-run" ELSE "register")
    BY <1>5 DEF RegisterRaftContainers
  <2>2. n \in Name /\ pc[p] = "register"
    BY <1>5, <2>1 DEF TypeOK, RegisterRaftContainers
  <2> QED BY <2>1, <2>2, ReplaceHost DEF NetworkStep
<1>6. CASE StartRaftLeader(p)
  <2>1. Leader \in Name
    BY CaptureAssumption
  <2> QED BY <1>6, <2>1, StartHost DEF StartRaftLeader, NetworkStep
<1>7. CASE StartRaftFollowers(p)
  <2>1. PICK n \in todo[p] :
          StartContainer(p, n, IF todo[p] = {n} THEN "topology" ELSE "followers-run")
    BY <1>7 DEF StartRaftFollowers
  <2>2. n \in Name /\ pc[p] = "followers-run"
    BY <1>7, <2>1 DEF TypeOK, StartRaftFollowers
  <2> QED BY <2>1, <2>2, StartHost DEF NetworkStep
<1>8. CASE CaptureRaft(p)
  BY <1>8, MoveHost DEF CaptureRaft, CaptureGroup, docker, memory
<1>9. CASE StartSealFixture(p)
  <2>1. CASE pc[p] = "seal-mktemp" /\ MakeTempDir(p, "seal", "seal-run")
    BY <2>1, MakeTempDirHost
  <2>2. CASE /\ pc[p] = "seal-run"
             /\ Track(p, "seal")
             /\ RunContainer(p, "seal")
             /\ Goto(p, "seal")
             /\ UNCHANGED <<cur, todo, network, dirs, networks, tempDirs, fixture, result,
                            failures, crashes>>
    <3>1. Attaches(p)
      BY <1>n, <2>2 DEF Attaches, RunContainer, Goto, NetworkStep, TypeOK
    <3> QED BY <3>1, AttachesHost
  <2> QED BY <1>9, <2>1, <2>2 DEF StartSealFixture
<1>10. CASE CaptureSealLifecycle(p)
  BY <1>10, MoveHost DEF CaptureSealLifecycle, docker, memory
<1> QED
  BY <1>1, <1>2, <1>3, <1>4, <1>5, <1>6, <1>7, <1>8, <1>9, <1>10 DEF Advance

LEMMA FailHost ==
    ASSUME TypeOK, HostInv, NEW p \in Proc, Fail(p) \/ RunFailsAfterCreate(p)
    PROVE  HostInv'
<1>1. CASE Fail(p)
  BY <1>1, MoveHost DEF Fail, Abort
<1>2. CASE RunFailsAfterCreate(p)
  <2>1. PICK n \in RunNames(p) : /\ status' = [status EXCEPT ![n] = "created"]
                                 /\ owner' = [owner EXCEPT ![n] = p]
    BY <1>2 DEF RunFailsAfterCreate
  <2>2. n \in Name /\ (n \in Networked => pc[p] \in NetworkStep)
    BY CaptureAssumption DEF RunNames, NetworkStep, Networked, TypeOK, Prefix
  <2>3. Attaches(p)
    BY <1>2, <2>1, <2>2 DEF Attaches, RunFailsAfterCreate, Abort, Goto, NetworkStep, TypeOK
  <2> QED BY <2>3, AttachesHost
<1> QED BY <1>1, <1>2

\* Who finds the network in use leaves it to the run whose container is on it.
LEMMA CleanNetworkHost ==
    ASSUME TypeOK, LeakInv, HostInv, NEW p \in Proc, CleanNetwork(p)
    PROVE  HostInv'
<1> USE DEF CleanNetwork, Goto, TypeOK
<1>1. \A n \in Name : owner[n] # p
  BY DEF LeakInv, LeakAt, CleanedInOrder, OwnedIsTracked
<1>2. NetworkAwaited'
  <2> SUFFICES ASSUME crashes = 0, network' # Free
               PROVE  \E q \in Proc : networks'[q]
    BY DEF NetworkAwaited
  <2>1. CASE networks[p]
    <3>1. PICK n \in Networked : status[n] = "running"
      BY <2>1 DEF RemoveNetwork, NetworkBusy
    <3>2. n \in Name /\ owner[n] \notin {Free, Stale, Leaked}
      BY <3>1, NetworkedNames DEF HostInv, PresentIsOwned, NoneStale, LeakInv, NoLeak
    <3>3. owner[n] \in Proc /\ owner[n] # p
      BY <1>1, <3>2 DEF Owner
    <3>4. networks[owner[n]]
      BY <3>1, <3>3 DEF HostInv, NetworkRemembered
    <3> QED BY <3>3, <3>4
  <2>2. CASE ~networks[p]
    BY <2>2 DEF HostInv, NetworkAwaited
  <2> QED BY <2>1, <2>2
<1>3. ASSUME NEW q \in Proc PROVE NetworkRemembered(q)' /\ NetworkForgotten(q)'
  BY <1>1, NetworkedNames DEF HostInv, NetworkRemembered, NetworkForgotten, NetworkStep
<1>4. PresentIsOwned' /\ NoneStale'
  BY DEF HostInv, PresentIsOwned, NoneStale
<1> QED BY <1>2, <1>3, <1>4 DEF HostInv

LEMMA CleanupHost ==
    ASSUME TypeOK, LeakInv, LeakInv', HostInv, NEW p \in Proc, Cleanup(p)
    PROVE  HostInv'
<1>1. CASE CleanContainers(p)
  <2>1. Attaches(p)
    BY <1>1 DEF CleanContainers, Attaches, RemoveContainer, Goto, NetworkStep, TypeOK
  <2> QED BY <2>1, AttachesHost
<1>2. CASE CleanNetwork(p)
  BY <1>2, CleanNetworkHost
<1>3. CASE CleanDirs(p)
  <2> USE <1>3 DEF CleanDirs, Disown, Goto, TypeOK
  <2>1. \A n \in Name : owner'[n] = owner[n]
    BY DEF LeakInv, LeakAt, CleanedInOrder, OwnedIsTracked
  <2>2. \A d \in dirs' : d[1] # Leaked
    BY DEF LeakInv, NoLeak
  <2>3. NoneStale'
    <3>1. ASSUME NEW d \in dirs', crashes = 0 PROVE d[1] \in Proc
      <4>1. PICK e \in dirs : d = <<IF e[1] = p THEN Leaked ELSE e[1], e[2]>>
        OBVIOUS
      <4> QED BY <2>2, <3>1, <4>1 DEF HostInv, NoneStale
    <3> QED BY <2>1, <3>1 DEF HostInv, NoneStale
  <2>4. PresentIsOwned' /\ NetworkAwaited'
    BY <2>1, ProcFacts DEF HostInv, PresentIsOwned, NetworkAwaited, Free
  <2>5. ASSUME NEW q \in Proc PROVE NetworkRemembered(q)' /\ NetworkForgotten(q)'
    BY <2>1, NetworkedNames DEF HostInv, NetworkRemembered, NetworkForgotten, NetworkStep
  <2> QED BY <2>3, <2>4, <2>5 DEF HostInv
<1> QED BY <1>1, <1>2, <1>3 DEF Cleanup

LEMMA StartHostRun ==
    ASSUME TypeOK, LeakInv, HostInv, NEW p \in Proc, Start(p)
    PROVE  HostInv'
<1>1. \A n \in Name : owner[n] # p
  BY DEF LeakInv, LeakAt, IdleOwnsNothing, Start
<1>2. ASSUME NEW q \in Proc PROVE NetworkRemembered(q)' /\ NetworkForgotten(q)'
  BY <1>1, NetworkedNames DEF Start, Goto, docker, TypeOK, HostInv, NetworkRemembered,
     NetworkForgotten, NetworkStep
<1>3. NetworkAwaited'
  BY DEF Start, docker, TypeOK, HostInv, NetworkAwaited, NetworkForgotten
<1>4. PresentIsOwned' /\ NoneStale'
  BY DEF Start, docker, HostInv, PresentIsOwned, NoneStale
<1> QED BY <1>2, <1>3, <1>4 DEF HostInv

LEMMA CrashExitHost ==
    ASSUME TypeOK, HostInv,
           (\E p \in Proc : Crash(p)) \/ (\E n \in Name : ContainerExit(n))
    PROVE  HostInv'
<1>1. ASSUME NEW p \in Proc, Crash(p) PROVE HostInv'
  <2>1. crashes' # 0
    BY <1>1 DEF Crash, TypeOK
  <2>2. NoneStale' /\ NetworkAwaited' /\ \A q \in Proc : NetworkForgotten(q)'
    BY <2>1 DEF NoneStale, NetworkAwaited, NetworkForgotten
  <2>3. /\ \A n \in Name : owner'[n] = IF owner[n] = p THEN Stale ELSE owner[n]
        /\ UNCHANGED <<status, networks>> /\ pc' = [pc EXCEPT ![p] = "idle"]
    BY <1>1 DEF Crash, Disown, Goto, memory
  <2>4. PresentIsOwned'
    <3>1. Stale # Free
      BY DEF Stale, Free
    <3> QED BY <2>3, <3>1 DEF HostInv, PresentIsOwned
  <2>5. ASSUME NEW q \in Proc PROVE NetworkRemembered(q)'
    BY <2>3, ProcFacts, NetworkedNames DEF HostInv, NetworkRemembered, NetworkStep, TypeOK
  <2> QED BY <2>2, <2>4, <2>5 DEF HostInv
<1>2. ASSUME NEW n \in Name, ContainerExit(n) PROVE HostInv'
  BY <1>2 DEF ContainerExit, memory, TypeOK, HostInv, PresentIsOwned, NoneStale, NetworkAwaited,
     NetworkRemembered, NetworkForgotten
<1> QED BY <1>1, <1>2

LEMMA HostStep == TypeOK /\ LeakInv /\ LeakInv' /\ HostInv /\ [Next]_vars => HostInv'
<1> SUFFICES ASSUME TypeOK, LeakInv, LeakInv', HostInv, [Next]_vars PROVE HostInv'
  OBVIOUS
<1>1. CASE UNCHANGED vars
  BY <1>1 DEF vars, docker, memory, HostInv, PresentIsOwned, NoneStale, NetworkAwaited,
     NetworkRemembered, NetworkForgotten
<1>2. CASE Next
  BY <1>2, AdvanceHost, FailHost, CleanupHost, StartHostRun, CrashExitHost DEF Next, Run
<1> QED BY <1>1, <1>2

LEMMA InitHost == Init => HostInv
  BY ProcFacts, CaptureAssumption DEF Init, HostInv, PresentIsOwned, NoneStale, NetworkAwaited,
     NetworkRemembered, NetworkForgotten, NetworkStep, Networked, Name, Free, Stale

\* However many invocations overlap and whatever fails, when no run was killed
\* and the last one is over, Docker and the host are as before the first.
THEOREM HostIsLeftClean == Spec => []HostClean
<1>1. TypeOK /\ LeakInv /\ HostInv => HostClean
  BY DEF TypeOK, LeakInv, LeakAt, IdleOwnsNothing, NoLeak, HostInv, PresentIsOwned, NoneStale,
     NetworkForgotten, NetworkAwaited, HostClean, Owner
<1> QED
  BY <1>1, InitLeak, LeakStep, InitHost, HostStep, TypeCorrect, PTL DEF Spec

-----------------------------------------------------------------------------
(***************************************************************************)
(* FreshOnSuccess, for an invocation that has the names and the output      *)
(* directory to itself.                                                     *)
(***************************************************************************)
OneAtATime == \A p, q \in Proc : p = q

\* What a step reads from, this run started.
UsesOwn(p) ==
    /\ pc[p] = "exercise" => owner[cur[p]] = p
    /\ pc[p] = "leader-run" => todo[p] = RaftNode \ {Leader}
    /\ pc[p] = "followers-run" => \A n \in RaftNode \ todo[p] : owner[n] = p
    /\ pc[p] \in {"topology", "workload", "cluster"} => \A n \in RaftNode : owner[n] = p
    /\ pc[p] = "seal" => owner["seal"] = p

\* The groups of the steps before the present one are of this run.
Written(p) == {g \in Output :
    \/ g = "vault" /\ cur[p] = "openbao"
    \/ g = "openbao" /\ pc[p] \in RaftStep \cup SealStep
    \/ g = "topology" /\ pc[p] \in {"workload", "cluster"} \cup SealStep
    \/ g = "workload" /\ pc[p] \in {"cluster"} \cup SealStep
    \/ g = "cluster" /\ pc[p] \in SealStep}

WritesInOrder(p) ==
    pc[p] \in Working => /\ result[p] = "none"
                         /\ \A g \in Written(p) : fixture[g] = {p}
                         /\ pc[p] \in RaftStep \cup SealStep => cur[p] = "openbao"

FreshAt(p) == result[p] = "ok" => \A g \in Output : fixture[g] = {p}

FreshInv == \A p \in Proc : UsesOwn(p) /\ WritesInOrder(p) /\ FreshAt(p)

\* A scrape of own containers writes a group of this run.
LEMMA ScrapeOwn ==
    ASSUME TypeOK, NEW p \in Proc, UsesOwn(p), NEW g \in Output, Scrape(p, g),
           pc[p] \in {"exercise", "topology", "workload", "cluster", "seal"}
    PROVE  fixture' = [fixture EXCEPT ![g] = {p}]
<1>1. \A n \in Used(p) \ {"postgres"} : owner[n] = p
  BY DEF Used, UsesOwn
<1>2. \E n \in Used(p) : n # "postgres"
  <2>1. CASE pc[p] = "exercise"
    <3>1. cur[p] \in Used(p) /\ cur[p] # "postgres"
      BY <2>1, NameFacts DEF Used, TypeOK, Prefix
    <3> QED BY <3>1
  <2>2. CASE pc[p] \in {"topology", "workload", "cluster"}
    <3>1. Leader \in Used(p) /\ Leader # "postgres"
      BY <2>2, NameFacts, CaptureAssumption DEF Used
    <3> QED BY <3>1
  <2>3. CASE pc[p] = "seal"
    BY <2>3, NameFacts DEF Used
  <2> QED BY <2>1, <2>2, <2>3
<1>3. {owner[n] : n \in Used(p) \ {"postgres"}} = {p}
  BY <1>1, <1>2
<1> QED BY <1>3 DEF Scrape

\* A step of the only invocation that writes no group and leaves it at work.
LEMMA PrepareFresh ==
    ASSUME OneAtATime, TypeOK, FreshInv, NEW p \in Proc, NEW next, Goto(p, next),
           UNCHANGED <<cur, fixture, result>>,
           pc[p] \in Working, next \in Working, UsesOwn(p)',
           \/ pc[p] \in PrefixStep /\ next \in PrefixStep
           \/ pc[p] \in RaftStep \ {"topology", "workload", "cluster"}
              /\ next \in RaftStep \ {"workload", "cluster"}
           \/ pc[p] \in SealStep /\ next \in SealStep
    PROVE  FreshInv'
<1> USE DEF FreshInv
<1>1. WritesInOrder(p) /\ pc'[p] = next
  BY DEF Goto, TypeOK
<1>2. WritesInOrder(p)'
  <2>1. /\ "topology" \notin PrefixStep \cup SealStep
        /\ PrefixStep \cap (RaftStep \cup SealStep) = {} /\ RaftStep \cap SealStep = {}
        /\ {"workload", "cluster"} \cap (PrefixStep \cup SealStep) = {}
    BY DEF PrefixStep, RaftStep, SealStep
  <2>2. Written(p)' \subseteq Written(p)
    BY <1>1, <2>1 DEF Written
  <2> QED BY <1>1, <2>1, <2>2 DEF WritesInOrder
<1>3. FreshAt(p)'
  BY <1>1 DEF WritesInOrder, FreshAt
<1> QED BY <1>2, <1>3 DEF OneAtATime

LEMMA AdvanceFresh ==
    ASSUME OneAtATime, TypeOK, FreshInv, NEW p \in Proc, Advance(p)
    PROVE  FreshInv'
<1> USE NameFacts
<1>s. PrefixStep \cup RaftStep \cup SealStep \subseteq Working
  BY DEF Working
<1>0. UsesOwn(p) /\ WritesInOrder(p) /\ FreshAt(p)
  BY DEF FreshInv
<1>1. CASE CapturePrefix(p)
  <2>1. CASE pc[p] = "mktemp" /\ MakeTempDir(p, cur[p], "replace")
    <3>1. UsesOwn(p)'
      BY <2>1 DEF UsesOwn, MakeTempDir, Goto, TypeOK
    <3> QED BY <2>1, <3>1, <1>s, PrepareFresh DEF MakeTempDir, PrefixStep
  <2>2. CASE pc[p] = "replace" /\ ReplaceContainer(p, cur[p], "run") /\ UNCHANGED todo
    <3>1. UsesOwn(p)'
      BY <2>2 DEF UsesOwn, ReplaceContainer, Goto, TypeOK
    <3> QED BY <2>2, <3>1, <1>s, PrepareFresh DEF ReplaceContainer, PrefixStep
  <2>3. CASE pc[p] = "run" /\ StartContainer(p, cur[p], "exercise") /\ UNCHANGED todo
    <3>1. UsesOwn(p)'
      BY <2>3 DEF UsesOwn, StartContainer, RunContainer, Goto, TypeOK
    <3> QED BY <2>3, <3>1, <1>s, PrepareFresh DEF StartContainer, PrefixStep
  <2>4. CASE /\ pc[p] = "exercise"
             /\ Scrape(p, cur[p])
             /\ Goto(p, IF cur[p] = "vault" THEN "mktemp" ELSE "network-rm")
             /\ cur' = [cur EXCEPT ![p] = "openbao"]
             /\ UNCHANGED <<todo, docker, memory, result, failures, crashes>>
    <3>1. cur[p] \in Prefix /\ cur[p] \in Output /\ Prefix = {"vault", "openbao"}
      BY DEF TypeOK, Output, Prefix
    <3>2. fixture' = [fixture EXCEPT ![cur[p]] = {p}]
      BY <1>0, <2>4, <3>1, ScrapeOwn
    <3>3. /\ pc'[p] = IF cur[p] = "vault" THEN "mktemp" ELSE "network-rm"
          /\ cur'[p] = "openbao" /\ result'[p] = result[p]
      BY <2>4 DEF Goto, TypeOK
    <3>4. UsesOwn(p)'
      BY <3>3 DEF UsesOwn
    <3>5. result[p] = "none"
      BY <1>0, <2>4 DEF WritesInOrder, Working, PrefixStep
    <3>6. fixture'["vault"] = {p} /\ (cur[p] = "openbao" => fixture'["openbao"] = {p})
      <4>1. CASE cur[p] = "vault"
        BY <3>1, <3>2, <4>1 DEF TypeOK
      <4>2. CASE cur[p] = "openbao"
        <5>1. fixture["vault"] = {p}
          BY <1>0, <2>4, <4>2 DEF WritesInOrder, Written, Working, PrefixStep, Output, Prefix
        <5> QED BY <3>1, <3>2, <4>2, <5>1 DEF TypeOK, Output
      <4> QED BY <3>1, <4>1, <4>2
    <3>7. Written(p)' \subseteq IF cur[p] = "vault" THEN {"vault"} ELSE {"vault", "openbao"}
      BY <3>3 DEF Written, RaftStep, SealStep
    <3>8. WritesInOrder(p)' /\ FreshAt(p)'
      BY <3>1, <3>3, <3>5, <3>6, <3>7 DEF WritesInOrder, FreshAt
    <3> QED BY <3>4, <3>8 DEF FreshInv, OneAtATime
  <2> QED BY <1>1, <2>1, <2>2, <2>3, <2>4 DEF CapturePrefix
<1>2. CASE PrepareRaftNetwork(p)
  <2>1. \/ pc[p] = "network-rm" /\ Goto(p, "network-create")
        \/ pc[p] = "network-create" /\ Goto(p, "postgres-replace")
    BY <1>2 DEF PrepareRaftNetwork
  <2>2. UNCHANGED <<cur, fixture, result>>
    BY <1>2 DEF PrepareRaftNetwork
  <2>3. UsesOwn(p)'
    BY <2>1 DEF UsesOwn, Goto, TypeOK
  <2> QED BY <1>s, <2>1, <2>2, <2>3, PrepareFresh DEF RaftStep
<1>3. CASE StartRaftPostgres(p)
  <2>1. \/ pc[p] = "postgres-replace" /\ Goto(p, "postgres-run")
        \/ pc[p] = "postgres-run" /\ Goto(p, "raft-mktemp")
    BY <1>3 DEF StartRaftPostgres, ReplaceContainer, StartContainer
  <2>2. UNCHANGED <<cur, fixture, result>>
    BY <1>3 DEF StartRaftPostgres, ReplaceContainer, StartContainer
  <2>3. UsesOwn(p)'
    BY <2>1 DEF UsesOwn, Goto, TypeOK
  <2> QED BY <1>s, <2>1, <2>2, <2>3, PrepareFresh DEF RaftStep
<1>4. CASE PrepareRaftTempDir(p)
  <2>1. UsesOwn(p)'
    BY <1>4 DEF PrepareRaftTempDir, MakeTempDir, UsesOwn, Goto, TypeOK
  <2> QED BY <1>4, <1>s, <2>1, PrepareFresh DEF PrepareRaftTempDir, MakeTempDir, RaftStep
<1>5. CASE RegisterRaftContainers(p)
  <2>1. PICK n \in todo[p] :
          /\ ReplaceContainer(p, n, IF todo[p] = {n} THEN "leader-run" ELSE "register")
          /\ todo' = [todo EXCEPT ![p] = IF todo[p] = {n} THEN RaftNode \ {Leader}
                                                          ELSE @ \ {n}]
    BY <1>5 DEF RegisterRaftContainers
  <2>2. pc[p] = "register" /\ UNCHANGED <<cur, fixture, result>>
    BY <1>5, <2>1 DEF RegisterRaftContainers, ReplaceContainer
  <2>3. \/ Goto(p, "leader-run") /\ todo'[p] = RaftNode \ {Leader}
        \/ Goto(p, "register")
    BY <2>1 DEF ReplaceContainer, TypeOK
  <2>4. UsesOwn(p)'
    BY <2>3 DEF UsesOwn, Goto, TypeOK
  <2> QED BY <1>s, <2>2, <2>3, <2>4, PrepareFresh DEF RaftStep
<1>6. CASE StartRaftLeader(p)
  <2>1. /\ pc[p] = "leader-run" /\ Goto(p, "followers-run") /\ UNCHANGED todo
        /\ UNCHANGED <<cur, fixture, result>> /\ owner' = [owner EXCEPT ![Leader] = p]
    BY <1>6 DEF StartRaftLeader, StartContainer, RunContainer
  <2>2. pc'[p] = "followers-run" /\ todo'[p] = RaftNode \ {Leader} /\ owner'[Leader] = p
    BY <1>0, <2>1 DEF UsesOwn, Goto, TypeOK
  <2>3. UsesOwn(p)'
    BY <2>2 DEF UsesOwn
  <2> QED BY <1>s, <2>1, <2>3, PrepareFresh DEF RaftStep
<1>7. CASE StartRaftFollowers(p)
  <2>1. PICK n \in todo[p] :
          /\ StartContainer(p, n, IF todo[p] = {n} THEN "topology" ELSE "followers-run")
          /\ todo' = [todo EXCEPT ![p] = @ \ {n}]
    BY <1>7 DEF StartRaftFollowers
  <2>2. /\ pc[p] = "followers-run" /\ UNCHANGED <<cur, fixture, result>>
        /\ owner' = [owner EXCEPT ![n] = p] /\ n \in RaftNode
    BY <1>7, <2>1 DEF StartRaftFollowers, StartContainer, RunContainer, TypeOK
  <2>3. \/ Goto(p, "topology") /\ todo[p] = {n}
        \/ Goto(p, "followers-run")
    BY <2>1 DEF StartContainer
  <2>4. \A m \in RaftNode \ (todo[p] \ {n}) : owner'[m] = p
    BY <1>0, <2>2 DEF UsesOwn, TypeOK
  <2>5. todo'[p] = todo[p] \ {n} /\ cur' = cur
    BY <2>1, <2>2 DEF TypeOK
  <2>6. UsesOwn(p)'
    <3>1. \/ pc'[p] = "topology" /\ todo[p] = {n}
          \/ pc'[p] = "followers-run"
      BY <2>3 DEF Goto, TypeOK
    <3> QED BY <2>4, <2>5, <3>1 DEF UsesOwn
  <2> QED BY <1>s, <2>2, <2>3, <2>6, PrepareFresh DEF RaftStep
<1>8. ASSUME NEW g \in {"topology", "workload", "cluster"}, NEW next,
             CaptureGroup(p, g, next),
             \/ g = "topology" /\ next = "workload"
             \/ g = "workload" /\ next = "cluster"
             \/ g = "cluster" /\ next = "seal-mktemp"
      PROVE  FreshInv'
  <2>1. /\ pc[p] = g /\ Scrape(p, g) /\ Goto(p, next)
        /\ UNCHANGED <<cur, todo, owner, result>>
    BY <1>8 DEF CaptureGroup, docker
  <2>2. fixture' = [fixture EXCEPT ![g] = {p}] /\ g \in Output
    <3>1. g \in Output
      BY DEF Output
    <3> QED BY <1>0, <2>1, <3>1, ScrapeOwn
  <2>3. pc'[p] = next
    BY <2>1 DEF Goto, TypeOK
  <2>4. UsesOwn(p)'
    BY <1>0, <1>8, <2>1, <2>3 DEF UsesOwn
  <2>5. /\ result[p] = "none" /\ cur[p] = "openbao"
        /\ \A h \in Written(p) : fixture[h] = {p}
    BY <1>0, <2>1 DEF WritesInOrder, Working, RaftStep
  <2>6. Written(p)' \subseteq Written(p) \cup {g}
    BY <1>8, <2>1, <2>3 DEF Written, RaftStep, SealStep
  <2>7. \A h \in Written(p)' : fixture'[h] = {p}
    BY <2>2, <2>5, <2>6 DEF TypeOK, Written
  <2>8. WritesInOrder(p)' /\ FreshAt(p)'
    BY <2>1, <2>5, <2>7 DEF WritesInOrder, FreshAt
  <2> QED BY <2>4, <2>8 DEF FreshInv, OneAtATime
<1>9. CASE StartSealFixture(p)
  <2>1. CASE pc[p] = "seal-mktemp" /\ MakeTempDir(p, "seal", "seal-run")
    <3>1. UsesOwn(p)'
      BY <2>1 DEF UsesOwn, MakeTempDir, Goto, TypeOK
    <3> QED BY <2>1, <3>1, <1>s, PrepareFresh DEF MakeTempDir, SealStep
  <2>2. CASE /\ pc[p] = "seal-run"
             /\ RunContainer(p, "seal")
             /\ Goto(p, "seal")
             /\ UNCHANGED <<cur, todo, network, dirs, networks, tempDirs, fixture, result,
                            failures, crashes>>
    <3>1. UsesOwn(p)'
      BY <2>2 DEF UsesOwn, RunContainer, Goto, TypeOK
    <3> QED BY <2>2, <3>1, <1>s, PrepareFresh DEF SealStep
  <2> QED BY <1>9, <2>1, <2>2 DEF StartSealFixture
<1>10. CASE CaptureSealLifecycle(p)
  <2>1. /\ pc[p] = "seal" /\ Scrape(p, "seal") /\ Goto(p, "clean-containers")
        /\ "seal" \in Output
    BY <1>10 DEF CaptureSealLifecycle, Output
  <2>2. fixture' = [fixture EXCEPT !["seal"] = {p}]
    BY <1>0, <2>1, ScrapeOwn
  <2>3. pc'[p] = "clean-containers"
    BY <2>1 DEF Goto, TypeOK
  <2>4. UsesOwn(p)' /\ WritesInOrder(p)'
    BY <2>3 DEF UsesOwn, WritesInOrder, Working, PrefixStep, RaftStep, SealStep
  <2>5. Written(p) = Output \ {"seal"}
    BY <1>0, <2>1 DEF Written, WritesInOrder, Output, Prefix, Working, SealStep
  <2>6. \A g \in Output : fixture'[g] = {p}
    BY <1>0, <2>1, <2>2, <2>5 DEF WritesInOrder, TypeOK, Working, SealStep
  <2> QED BY <2>4, <2>6 DEF FreshInv, FreshAt, OneAtATime
<1> QED
  BY <1>1, <1>2, <1>3, <1>4, <1>5, <1>6, <1>7, <1>8, <1>9, <1>10 DEF Advance, CaptureRaft

\* Ends, kills, cleanup and a new start.
LEMMA OtherFresh ==
    ASSUME OneAtATime, TypeOK, FreshInv, NEW p \in Proc,
           \/ Fail(p) \/ RunFailsAfterCreate(p) \/ Cleanup(p)
           \/ Start(p) \/ Crash(p)
    PROVE  FreshInv'
<1>0. UsesOwn(p) /\ WritesInOrder(p) /\ FreshAt(p)
  BY DEF FreshInv
<1> USE DEF UsesOwn, WritesInOrder, Working, PrefixStep, RaftStep, SealStep, FreshAt, Goto
<1> SUFFICES UsesOwn(p)' /\ WritesInOrder(p)' /\ FreshAt(p)'
  BY DEF FreshInv, OneAtATime
<1>1. CASE Fail(p) \/ RunFailsAfterCreate(p)
  <2>1. pc'[p] = "clean-containers" /\ result'[p] = "failed"
    BY <1>1 DEF Fail, RunFailsAfterCreate, Abort, TypeOK
  <2> QED BY <2>1
<1>2. CASE Cleanup(p)
  <2>1. /\ pc'[p] \in {"clean-containers", "clean-network", "clean-dirs", "idle"}
        /\ UNCHANGED <<fixture, result>>
    BY <1>2 DEF Cleanup, CleanContainers, CleanNetwork, CleanDirs, TypeOK
  <2> QED BY <1>0, <2>1
<1>3. CASE Start(p)
  <2>1. pc'[p] = "mktemp" /\ result'[p] = "none" /\ cur'[p] = "vault"
    BY <1>3 DEF Start, TypeOK
  <2>2. Written(p)' = {}
    BY <2>1 DEF Written
  <2> QED BY <2>1, <2>2
<1>4. CASE Crash(p)
  <2>1. pc'[p] = "idle" /\ result'[p] = "killed"
    BY <1>4 DEF Crash, TypeOK
  <2> QED BY <2>1
<1> QED BY <1>1, <1>2, <1>3, <1>4

LEMMA FreshStep ==
    ASSUME OneAtATime, TypeOK, FreshInv, [Next]_vars
    PROVE  FreshInv'
<1>1. CASE UNCHANGED vars \/ \E n \in Name : ContainerExit(n)
  <2>1. UNCHANGED <<pc, cur, todo, owner, fixture, result>>
    BY <1>1 DEF vars, docker, ContainerExit
  <2> QED BY <2>1 DEF FreshInv, UsesOwn, WritesInOrder, Written, FreshAt
<1>2. CASE \E p \in Proc : Advance(p)
  BY <1>2, AdvanceFresh
<1>3. CASE \E p \in Proc : \/ Fail(p) \/ RunFailsAfterCreate(p) \/ Cleanup(p)
                           \/ Start(p) \/ Crash(p)
  BY <1>3, OtherFresh
<1> QED BY <1>1, <1>2, <1>3 DEF Next, Run

LEMMA InitFresh == Init => FreshInv
  BY DEF Init, FreshInv, UsesOwn, WritesInOrder, Working, PrefixStep, RaftStep, SealStep, FreshAt

\* With one invocation at a time, whatever failed or was killed before: a run
\* that reports success has written every group from containers it started.
THEOREM SuccessIsFresh ==
    ASSUME OneAtATime
    PROVE  Spec => []FreshOnSuccess
<1>1. FreshInv => FreshOnSuccess
  BY DEF FreshInv, FreshAt, FreshOnSuccess
<1>2. TypeOK /\ FreshInv /\ [Next]_vars => FreshInv'
  BY FreshStep
<1> QED
  BY <1>1, <1>2, InitFresh, TypeCorrect, PTL DEF Spec
=============================================================================
