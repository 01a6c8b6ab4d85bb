------------------------- MODULE ReleaseBundleProofs -------------------------
(***************************************************************************)
(* For every tree, every set of includes, any number of runs and all        *)
(* bounds: types, NoLitter, that the release directory implements           *)
(* AtomicPublish, what the bundle holds of files nobody edited, what        *)
(* checksums.txt says of the directory, and why runs fail.                  *)
(***************************************************************************)
EXTENDS ReleaseBundle, TLAPS

\* A body whose entries are not longer than their headers say.
Fits(b) == \A f \in DOMAIN b : b[f] \in [size : Nat, text : Contents]
                               /\ Size[b[f].text] <= b[f].size

\* What is known of the temporary file of a run at each of its steps.  The files
\* of entries[p] are in the archive or still on the list.
TempInv(p) ==
    /\ pc[p] \in {"write", "close", "hash"} =>
          dist[p] = [closed |-> FALSE, body |-> dist[p].body]
    /\ pc[p] = "move" => IsFile(dist[p])
    /\ pc[p] \in {"write", "close"} =>
          /\ DOMAIN entries[p] # {}
          /\ walk[p] \subseteq DOMAIN entries[p]
          /\ dist[p].body = [f \in DOMAIN entries[p] \ walk[p] |-> dist[p].body[f]]
          /\ Fits(dist[p].body)
    /\ pc[p] = "close" => walk[p] = {}
    /\ pc[p] = "rename" => dist[p] \in Archives

IInv == TypeOK /\ NoLitter /\ \A p \in Makes : TempInv(p)

\* A release directory in which one name gets a file, or none.
DirOK(d) == d = [n \in Names |-> d[n]]
            /\ \A n \in Names : d[n] # Absent => IsFile(d[n])

LEMMA DirStep ==
    ASSUME NEW d, DirOK(d), NEW n \in Names, NEW v, v = Absent \/ IsFile(v)
    PROVE  DirOK([d EXCEPT ![n] = v])
BY DEF DirOK

LEMMA AFile == ASSUME NEW x, NEW c \in BOOLEAN PROVE IsFile([closed |-> c, body |-> x])
BY DEF IsFile

LEMMA InitInv == Init => IInv
BY ReleaseAssumption DEF Init, IInv, TypeOK, NoLitter, TempInv, Temp, Names, Active, Empty

\* Steps of a run that touch neither its temporary file nor its step.
LEMMA CollectInv ==
    ASSUME IInv, NEW p \in Makes,
           Start(p) \/ IncludeFile(p) \/ IncludeDir(p) \/ WalkFile(p)
    PROVE  IInv'
<1> USE ReleaseAssumption DEF IInv
<1>1. CASE Start(p)
  BY <1>1 DEF Start, Goto, TypeOK, NoLitter, TempInv, Temp, Active, counters, IsFile
<1>2. CASE IncludeFile(p)
  <2>1. PICK i \in Includes, f \in Paths :
          /\ pc[p] = "collect" /\ tree[f] \in Contents
          /\ entries' = [entries EXCEPT ![p] =
                IF f \in DOMAIN entries[p] THEN entries[p]
                ELSE Put(entries[p], f, Size[tree[f]])]
          /\ includes' = [includes EXCEPT ![p] = @ \ {i}]
    BY <1>2 DEF IncludeFile, Including
  <2>2. UNCHANGED <<tree, dist, pc, walk, assets, counters, ghosts>>
    BY <1>2 DEF IncludeFile
  <2>3. DOMAIN entries'[p] \subseteq Paths /\ entries'[p] \in [DOMAIN entries'[p] -> Nat]
    BY <2>1 DEF TypeOK, Put
  <2> QED
    BY <2>1, <2>2, <2>3
    DEF TypeOK, NoLitter, TempInv, Temp, Active, counters, ghosts
<1>3. CASE IncludeDir(p)
  <2>1. PICK i \in Includes :
          /\ pc[p] = "collect"
          /\ walk' = [walk EXCEPT ![p] = Present(i.paths)]
          /\ includes' = [includes EXCEPT ![p] = @ \ {i}]
    BY <1>3 DEF IncludeDir, Including
  <2>2. UNCHANGED <<tree, dist, pc, entries, assets, counters, ghosts>>
    BY <1>3 DEF IncludeDir
  <2>3. Present(i.paths) \subseteq Paths
    BY DEF Present
  <2> QED
    BY <2>1, <2>2, <2>3
    DEF TypeOK, NoLitter, TempInv, Temp, Active, counters, ghosts
<1>4. CASE WalkFile(p)
  <2>1. PICK f \in walk[p] :
          /\ pc[p] = "collect" /\ tree[f] \in Contents
          /\ entries' = [entries EXCEPT ![p] =
                IF f \in DOMAIN entries[p] THEN entries[p]
                ELSE Put(entries[p], f, Size[tree[f]])]
          /\ walk' = [walk EXCEPT ![p] = @ \ {f}]
    BY <1>4 DEF WalkFile
  <2>2. UNCHANGED <<tree, dist, pc, includes, assets, counters, ghosts>>
    BY <1>4 DEF WalkFile
  <2>3. DOMAIN entries'[p] \subseteq Paths /\ entries'[p] \in [DOMAIN entries'[p] -> Nat]
    BY <2>1 DEF TypeOK, Put
  <2> QED
    BY <2>1, <2>2, <2>3
    DEF TypeOK, NoLitter, TempInv, Temp, Active, counters, ghosts
<1> QED
  BY <1>1, <1>2, <1>3, <1>4

\* Everything else changes the step of a run, or its temporary file.  What a run
\* does to its own file is no concern of the others'.
LEMMA OthersKept ==
    ASSUME IInv, NEW p \in Makes, NEW q \in Makes, q # p,
           pc'[q] = pc[q], dist'[q] = dist[q],
           walk'[q] = walk[q], entries'[q] = entries[q]
    PROVE  TempInv(q)' /\ ((dist[q] # Absent => Active(q) \/ pc[q] = "killed")
                           => (dist'[q] # Absent => Active(q)' \/ pc'[q] = "killed"))
BY DEF IInv, TempInv, Active, IsFile

LEMMA WriteInv ==
    ASSUME IInv, NEW p \in Makes,
           CreateBundle(p) \/ WriteEntry(p) \/ CloseBundle(p)
    PROVE  IInv'
<1> USE ReleaseAssumption DEF IInv
<1>a. p \in Names /\ p # archive /\ p # checksums
  BY DEF Names
<1>1. CASE CreateBundle(p)
  <2>1. /\ pc[p] = "collect" /\ entries[p] # Empty
        /\ dist' = [dist EXCEPT ![p] = [closed |-> FALSE, body |-> Empty]]
        /\ walk' = [walk EXCEPT ![p] = DOMAIN entries[p]]
        /\ pc' = [pc EXCEPT ![p] = "write"]
        /\ UNCHANGED <<tree, includes, entries, assets, counters, ghosts>>
    BY <1>1 DEF CreateBundle, Write, Temp, Goto
  <2>2. TypeOK'
    BY <1>a, <2>1 DEF TypeOK, IsFile, counters, ghosts
  <2>3. DOMAIN entries[p] # {}
    BY <2>1 DEF TypeOK, Empty
  <2>4. TempInv(p)'
    BY <1>a, <2>1, <2>3 DEF TempInv, TypeOK, Fits, Empty
  <2>5. \A q \in Makes : q # p => pc'[q] = pc[q] /\ dist'[q] = dist[q]
                                   /\ walk'[q] = walk[q] /\ entries'[q] = entries[q]
    BY <2>1 DEF TypeOK, Names
  <2> QED
    BY <1>a, <2>1, <2>2, <2>4, <2>5, OthersKept DEF NoLitter, Temp, TypeOK, Active
<1>2. CASE WriteEntry(p)
  <2>1. PICK f \in walk[p] :
          /\ pc[p] = "write" /\ tree[f] \in Contents /\ Size[tree[f]] <= entries[p][f]
          /\ dist' = [dist EXCEPT ![p] = [closed |-> FALSE, body |->
                Put(dist[p].body, f, [size |-> entries[p][f], text |-> tree[f]])]]
          /\ walk' = [walk EXCEPT ![p] = @ \ {f}]
          /\ pc' = [pc EXCEPT ![p] = IF walk[p] = {f} THEN "close" ELSE "write"]
    BY <1>2 DEF WriteEntry, Write, Temp, Goto
  <2>2. UNCHANGED <<tree, includes, entries, assets, counters, ghosts>>
    BY <1>2 DEF WriteEntry
  <2> DEFINE e == [size |-> entries[p][f], text |-> tree[f]]
             b == Put(dist[p].body, f, e)
  <2>3. dist' = [dist EXCEPT ![p] = [closed |-> FALSE, body |-> b]]
    BY <2>1
  <2>4. TypeOK'
    <3>1. DirOK(dist) /\ IsFile([closed |-> FALSE, body |-> b])
      BY AFile DEF TypeOK, DirOK
    <3>2. DirOK(dist')
      <4> HIDE DEF b
      <4> QED
        BY <1>a, <2>3, <3>1, DirStep
    <3>3. pc' \in [Makes -> {"ready", "collect", "write", "close", "rename",
                            "sum", "hash", "move", "done", "failed", "killed"}]
          /\ walk' \in [Makes -> SUBSET Paths]
      BY <2>1 DEF TypeOK
    <3> QED
      BY <2>2, <3>2, <3>3 DEF TypeOK, DirOK, counters, ghosts
  <2>5. /\ DOMAIN entries[p] # {} /\ walk[p] \subseteq DOMAIN entries[p]
        /\ DOMAIN dist[p].body = DOMAIN entries[p] \ walk[p]
        /\ Fits(dist[p].body)
    BY <2>1 DEF TempInv
  <2>6. DOMAIN b = DOMAIN entries[p] \ (walk[p] \ {f})
    BY <2>5 DEF Put
  <2>7. b = [g \in DOMAIN b |-> b[g]]
    BY DEF Put
  <2>8. e \in [size : Nat, text : Contents] /\ Size[e.text] <= e.size
    BY <2>1, <2>5 DEF TypeOK
  <2>9. Fits(b)
    BY <2>5, <2>8 DEF Fits, Put
  <2>10. TempInv(p)'
    <3>1. dist'[p] = [closed |-> FALSE, body |-> b] /\ dist'[p].body = b
      BY <1>a, <2>3 DEF TypeOK
    <3>2. walk'[p] = walk[p] \ {f} /\ entries'[p] = entries[p]
      BY <2>1, <2>2 DEF TypeOK
    <3>3. pc'[p] = IF walk[p] = {f} THEN "close" ELSE "write"
      BY <2>1 DEF TypeOK
    <3>4. walk'[p] \subseteq DOMAIN entries'[p]
      BY <2>5, <3>2
    <3>5. Fits(dist[p].body)'
      BY <2>9, <3>1 DEF Fits
    <3>6. dist'[p].body = [g \in DOMAIN entries'[p] \ walk'[p] |-> dist'[p].body[g]]
      BY <2>6, <2>7, <3>1, <3>2
    <3> QED
      BY <2>5, <3>1, <3>2, <3>3, <3>4, <3>5, <3>6 DEF TempInv
  <2>11. \A q \in Makes : q # p => pc'[q] = pc[q] /\ dist'[q] = dist[q]
                                    /\ walk'[q] = walk[q] /\ entries'[q] = entries[q]
    BY <2>1, <2>2, <2>3 DEF TypeOK, Names
  <2>12. Active(p)'
    BY <2>1 DEF Active, TypeOK
  <2> QED
    BY <2>4, <2>10, <2>11, <2>12, OthersKept DEF NoLitter, Temp
<1>3. CASE CloseBundle(p)
  <2>1. /\ pc[p] = "close" /\ ~Short(p)
        /\ dist' = [dist EXCEPT ![p] = [closed |-> TRUE, body |-> @.body]]
        /\ pc' = [pc EXCEPT ![p] = "rename"]
        /\ UNCHANGED <<tree, includes, walk, entries, assets, counters, ghosts>>
    BY <1>3 DEF CloseBundle, Close, Temp, Goto
  <2> DEFINE b == dist[p].body
  <2>2. dist' = [dist EXCEPT ![p] = [closed |-> TRUE, body |-> b]]
    BY <2>1
  <2>3. TypeOK'
    <3>1. DirOK(dist) /\ IsFile([closed |-> TRUE, body |-> b])
      BY AFile DEF TypeOK, DirOK
    <3>2. DirOK(dist')
      BY <1>a, <2>2, <3>1, DirStep
    <3>3. pc' \in [Makes -> {"ready", "collect", "write", "close", "rename",
                            "sum", "hash", "move", "done", "failed", "killed"}]
      BY <2>1 DEF TypeOK
    <3> QED
      BY <2>1, <3>2, <3>3 DEF TypeOK, DirOK, counters, ghosts
  <2>4. [closed |-> TRUE, body |-> b] \in Archives
    <3> DEFINE S == DOMAIN entries[p]
    <3>1. S # {} /\ S \subseteq Paths /\ b = [f \in S |-> b[f]] /\ Fits(b)
      BY <2>1 DEF TempInv, TypeOK
    <3>2. ASSUME NEW f \in S
          PROVE  b[f] \in {[size |-> Size[c], text |-> c] : c \in Contents}
      <4>1. b[f] \in [size : Nat, text : Contents] /\ Size[b[f].text] <= b[f].size
        BY <3>1 DEF Fits
      <4>2. ~(Size[b[f].text] < b[f].size)
        BY <2>1, <3>1 DEF Short, Temp
      <4>3. b[f].size = Size[b[f].text]
        BY <4>1, <4>2
      <4>4. b[f] = [size |-> Size[b[f].text], text |-> b[f].text]
        BY <4>1, <4>3
      <4> QED
        BY <4>1, <4>4
    <3>3. b \in [S -> {[size |-> Size[c], text |-> c] : c \in Contents}]
      BY <3>1, <3>2
    <3>a. S # {} /\ S \subseteq Paths
      BY <3>1
    <3> HIDE DEF b, S
    <3>4. S \in {T \in SUBSET Paths : T # {}}
      BY <3>a
    <3>5. b \in UNION {[T -> {[size |-> Size[c], text |-> c] : c \in Contents}] :
                         T \in {U \in SUBSET Paths : U # {}}}
      BY <3>3, <3>4
    <3> QED
      BY <3>5 DEF Archives
  <2>5. TempInv(p)'
    BY <1>a, <2>1, <2>2, <2>4 DEF TempInv, TypeOK
  <2>6. \A q \in Makes : q # p => pc'[q] = pc[q] /\ dist'[q] = dist[q]
                                   /\ walk'[q] = walk[q] /\ entries'[q] = entries[q]
    BY <2>1, <2>2 DEF TypeOK, Names
  <2>7. Active(p)'
    BY <2>1 DEF Active, TypeOK
  <2> QED
    BY <2>3, <2>5, <2>6, <2>7, OthersKept DEF NoLitter, Temp
<1> QED
  BY <1>1, <1>2, <1>3

Renamed(d, p, n) == [d EXCEPT ![n] = d[p], ![p] = Absent]

\* os.Rename needs a file that is there; it is, at the steps that rename.
LEMMA RenameDir ==
    ASSUME NEW d, DirOK(d), NEW p \in Makes, NEW n \in {archive, checksums},
           IsFile(d[p])
    PROVE  /\ DirOK(Renamed(d, p, n))
           /\ Renamed(d, p, n)[n] = d[p]
           /\ \A q \in Makes : Renamed(d, p, n)[q] = IF q = p THEN Absent ELSE d[q]
BY ReleaseAssumption DEF DirOK, Names, Renamed

LEMMA WholeIsFile == \A d \in Archives : IsFile(d)
BY AFile DEF Archives

LEMMA SumInv ==
    ASSUME IInv, NEW p \in Makes,
           \/ RenameBundle(p) \/ ListAssets(p) \/ HashAsset(p)
           \/ CloseChecksums(p) \/ RenameChecksums(p)
    PROVE  IInv'
<1> USE ReleaseAssumption DEF IInv
<1>a. p \in Names /\ p # archive /\ p # checksums
  BY DEF Names
<1>b. DirOK(dist)
  BY DEF TypeOK, DirOK
<1>1. CASE RenameBundle(p)
  <2>1. /\ pc[p] = "rename" /\ pc' = [pc EXCEPT ![p] = "sum"]
        /\ dist' = Renamed(dist, p, archive)
        /\ includes' = [includes EXCEPT ![p] = {}] /\ walk' = [walk EXCEPT ![p] = {}]
        /\ entries' = [entries EXCEPT ![p] = Empty] /\ assets' = [assets EXCEPT ![p] = {}]
        /\ UNCHANGED <<tree, counters, ghosts>>
    BY <1>1 DEF RenameBundle, Rename, Renamed, Goto, Idle, Temp
  <2>2. IsFile(dist[p])
    BY <2>1, WholeIsFile DEF TempInv
  <2>3. DirOK(dist') /\ \A q \in Makes : dist'[q] = IF q = p THEN Absent ELSE dist[q]
    BY <1>b, <2>1, <2>2, RenameDir
  <2>4. TypeOK'
    BY <2>1, <2>3 DEF TypeOK, DirOK, Empty, counters, ghosts
  <2>5. TempInv(p)' /\ pc'[p] = "sum"
    BY <2>1 DEF TempInv, TypeOK
  <2>6. \A q \in Makes : q # p => pc'[q] = pc[q] /\ dist'[q] = dist[q]
                                   /\ walk'[q] = walk[q] /\ entries'[q] = entries[q]
    BY <2>1, <2>3 DEF TypeOK
  <2> QED
    BY <2>3, <2>4, <2>5, <2>6, OthersKept DEF NoLitter, Temp
<1>2. CASE ListAssets(p)
  <2>1. /\ pc[p] = "sum" /\ pc' = [pc EXCEPT ![p] = "hash"]
        /\ dist' = [dist EXCEPT ![p] = [closed |-> FALSE, body |-> Empty]]
        /\ assets' = [assets EXCEPT ![p] = Listed]
        /\ UNCHANGED <<tree, includes, walk, entries, counters, ghosts>>
    BY <1>2 DEF ListAssets, Write, Goto, Temp
  <2>2. DirOK(dist')
    BY <1>a, <1>b, <2>1, DirStep, AFile
  <2>3. TypeOK'
    BY <2>1, <2>2 DEF TypeOK, DirOK, Listed, counters, ghosts
  <2>4. TempInv(p)' /\ Active(p)'
    BY <1>a, <2>1 DEF TempInv, TypeOK, Active
  <2>5. \A q \in Makes : q # p => pc'[q] = pc[q] /\ dist'[q] = dist[q]
                                   /\ walk'[q] = walk[q] /\ entries'[q] = entries[q]
    BY <2>1 DEF TypeOK, Names
  <2> QED
    BY <2>3, <2>4, <2>5, OthersKept DEF NoLitter, Temp
<1>3. CASE HashAsset(p)
  <2>1. PICK n \in assets[p] :
          /\ pc[p] = "hash"
          /\ dist' = [dist EXCEPT ![p] =
                        [closed |-> FALSE, body |-> Put(dist[p].body, n, dist[n])]]
          /\ assets' = [assets EXCEPT ![p] = @ \ {n}]
    BY <1>3 DEF HashAsset, Write, Temp
  <2>2. UNCHANGED <<tree, pc, includes, walk, entries, counters, ghosts>>
    BY <1>3 DEF HashAsset
  <2> DEFINE b == Put(dist[p].body, n, dist[n])
  <2>3. dist' = [dist EXCEPT ![p] = [closed |-> FALSE, body |-> b]]
    BY <2>1
  <2>4. assets' \in [Makes -> SUBSET Names]
    BY <2>1 DEF TypeOK
  <2> HIDE DEF b
  <2>5. DirOK(dist')
    BY <1>a, <1>b, <2>3, DirStep, AFile
  <2>6. TypeOK'
    BY <2>2, <2>4, <2>5 DEF TypeOK, DirOK, counters, ghosts
  <2>7. TempInv(p)' /\ Active(p)'
    <3>1. pc'[p] = "hash"
      BY <2>1, <2>2
    <3>2. dist'[p] = [closed |-> FALSE, body |-> b]
      BY <1>a, <2>3 DEF TypeOK
    <3> QED
      BY <3>1, <3>2 DEF TempInv, Active
  <2>8. \A q \in Makes : q # p => pc'[q] = pc[q] /\ dist'[q] = dist[q]
                                   /\ walk'[q] = walk[q] /\ entries'[q] = entries[q]
    BY <2>2, <2>3 DEF TypeOK, Names
  <2> QED
    BY <2>6, <2>7, <2>8, OthersKept DEF NoLitter, Temp
<1>4. CASE CloseChecksums(p)
  <2>1. /\ pc[p] = "hash" /\ pc' = [pc EXCEPT ![p] = "move"]
        /\ dist' = [dist EXCEPT ![p] = [closed |-> TRUE, body |-> @.body]]
        /\ UNCHANGED <<tree, includes, walk, entries, assets, counters, ghosts>>
    BY <1>4 DEF CloseChecksums, Close, Goto, Temp
  <2>2. IsFile([closed |-> TRUE, body |-> dist[p].body])
    BY AFile
  <2>3. DirOK(dist')
    BY <1>a, <1>b, <2>1, <2>2, DirStep
  <2>4. TypeOK'
    BY <2>1, <2>3 DEF TypeOK, DirOK, counters, ghosts
  <2>5. dist'[p] = [closed |-> TRUE, body |-> dist[p].body]
    BY <1>a, <2>1 DEF TypeOK
  <2>6. TempInv(p)' /\ Active(p)'
    BY <2>1, <2>2, <2>5 DEF TempInv, TypeOK, Active
  <2>7. \A q \in Makes : q # p => pc'[q] = pc[q] /\ dist'[q] = dist[q]
                                   /\ walk'[q] = walk[q] /\ entries'[q] = entries[q]
    BY <2>1 DEF TypeOK, Names
  <2> QED
    BY <2>4, <2>6, <2>7, OthersKept DEF NoLitter, Temp
<1>5. CASE RenameChecksums(p)
  <2>1. /\ pc[p] = "move" /\ pc' = [pc EXCEPT ![p] = "done"]
        /\ dist' = Renamed(dist, p, checksums)
        /\ UNCHANGED <<tree, includes, walk, entries, assets, counters, ghosts>>
    BY <1>5 DEF RenameChecksums, Rename, Renamed, Goto, Temp
  <2>2. IsFile(dist[p])
    BY <2>1 DEF TempInv
  <2>3. DirOK(dist') /\ \A q \in Makes : dist'[q] = IF q = p THEN Absent ELSE dist[q]
    BY <1>b, <2>1, <2>2, RenameDir
  <2>4. TypeOK'
    BY <2>1, <2>3 DEF TypeOK, DirOK, counters, ghosts
  <2>5. TempInv(p)'
    BY <2>1 DEF TempInv, TypeOK
  <2>6. \A q \in Makes : q # p => pc'[q] = pc[q] /\ dist'[q] = dist[q]
                                   /\ walk'[q] = walk[q] /\ entries'[q] = entries[q]
    BY <2>1, <2>3 DEF TypeOK
  <2> QED
    BY <2>3, <2>4, <2>5, <2>6, OthersKept DEF NoLitter, Temp
<1> QED
  BY <1>1, <1>2, <1>3, <1>4, <1>5

LEMMA EndInv ==
    ASSUME IInv, NEW p \in Makes, Fail(p) \/ Break(p) \/ Kill(p)
    PROVE  IInv'
<1> USE ReleaseAssumption DEF IInv
<1>a. p \in Names
  BY DEF Names
<1>b. DirOK(dist)
  BY DEF TypeOK, DirOK
<1>1. PICK s \in {"failed", "killed"} :
        /\ pc' = [pc EXCEPT ![p] = s]
        /\ dist' = IF s = "failed" THEN [dist EXCEPT ![p] = Absent] ELSE dist
  BY DEF Fail, Break, Kill, GiveUp, Remove, Goto, Temp
<1>2. /\ includes' = [includes EXCEPT ![p] = {}] /\ walk' = [walk EXCEPT ![p] = {}]
      /\ entries' = [entries EXCEPT ![p] = Empty] /\ assets' = [assets EXCEPT ![p] = {}]
      /\ UNCHANGED <<tree, edits, ghosts>>
  BY DEF Fail, Break, Kill, GiveUp, Idle, counters
<1>3. failures' \in 0..MaxFailures /\ kills' \in 0..MaxKills
  BY DEF Fail, Break, Kill, TypeOK, counters
<1>4. DirOK(dist')
  BY <1>a, <1>b, <1>1, DirStep
<1>5. TypeOK'
  BY <1>1, <1>2, <1>3, <1>4 DEF TypeOK, DirOK, Empty, ghosts
<1>6. TempInv(p)' /\ (dist'[p] # Absent => pc'[p] = "killed")
  BY <1>a, <1>1 DEF TempInv, TypeOK
<1>7. \A q \in Makes : q # p => pc'[q] = pc[q] /\ dist'[q] = dist[q]
                                 /\ walk'[q] = walk[q] /\ entries'[q] = entries[q]
  BY <1>1, <1>2 DEF TypeOK, Names
<1> QED
  BY <1>5, <1>6, <1>7, OthersKept DEF NoLitter, Temp

LEMMA EditInv == ASSUME IInv, Edit PROVE IInv'
<1>1. PICK f \in Paths, c \in Contents \cup {Absent} :
        /\ edits < MaxEdits
        /\ tree' = [tree EXCEPT ![f] = c]
        /\ edits' = edits + 1
        /\ touched' = [p \in Makes |-> touched[p] \cup IF Active(p) THEN {f} ELSE {}]
  BY DEF Edit
<1>2. UNCHANGED <<dist, pc, includes, walk, entries, assets, failures, kills, alone>>
  BY DEF Edit, locals
<1>3. tree' \in [Paths -> Contents \cup {Absent, Link}]
  BY <1>1 DEF IInv, TypeOK
<1>4. edits' \in 0..MaxEdits /\ touched' \in [Makes -> SUBSET Paths]
  BY <1>1, ReleaseAssumption DEF IInv, TypeOK
<1>5. TypeOK'
  BY <1>2, <1>3, <1>4 DEF IInv, TypeOK, IsFile
<1>6. NoLitter' /\ \A p \in Makes : TempInv(p)'
  BY <1>2 DEF IInv, NoLitter, TempInv, Temp, Active, Fits, IsFile, Archives
<1> QED
  BY <1>5, <1>6 DEF IInv

LEMMA InductiveInv == Spec => []IInv
<1>1. ASSUME IInv, [Next]_vars PROVE IInv'
  <2>1. CASE UNCHANGED vars
    BY <1>1, <2>1 DEF vars, locals, counters, ghosts, IInv, TypeOK, NoLitter, TempInv,
                      Temp, Active, Fits, IsFile, Archives
  <2>2. CASE Edit
    BY <1>1, <2>2, EditInv
  <2>3. ASSUME NEW p \in Makes, Start(p) \/ Step(p) \/ Break(p) \/ Kill(p)
        PROVE  IInv'
    BY <1>1, <2>3, CollectInv, WriteInv, SumInv, EndInv DEF Step
  <2> QED
    BY <1>1, <2>1, <2>2, <2>3 DEF Next
<1> QED
  BY <1>1, InitInv, PTL DEF Spec

------------------------------------------------------------------------------

\* Every variable keeps its type.
THEOREM TypeCorrect == Spec => []TypeOK
<1>1. IInv => TypeOK
  BY DEF IInv
<1> QED
  BY <1>1, InductiveInv, PTL

\* Only active and killed runs have a temporary file in the release directory:
\* the deferred os.Remove of writeBundle and Checksums covers every return.
THEOREM NothingLeftBehind == Spec => []NoLitter
<1>1. IInv => NoLitter
  BY DEF IInv
<1> QED
  BY <1>1, InductiveInv, PTL

\* The fates of the runs after one of them has moved.
LEMMA FateStep ==
    ASSUME TypeOK, NEW p \in Makes, NEW s, pc' = [pc EXCEPT ![p] = s]
    PROVE  [q \in Makes |-> Fate(pc'[q])] =
           [[q \in Makes |-> Fate(pc[q])] EXCEPT ![p] = Fate(s)]
BY DEF TypeOK

LEMMA Fates ==
    /\ Fate("ready") = "idle"
    /\ \A s \in {"collect", "write", "close", "rename"} : Fate(s) = "running"
    /\ \A s \in {"sum", "hash", "move"} : Fate(s) = "published"
    /\ \A s \in {"done", "failed", "killed"} : Fate(s) = "ended"
BY DEF Fate

\* The release directory implements AtomicPublish: the archive is absent or whole,
\* a run replaces it at most once, and neither a failure nor a kill nor an edit
\* shows in it (writeBundle's temporary file, tar's size check and rename).
THEOREM BundleIsAtomic == Spec => PublishesAtomically
<1>1. Init => Atomic!Init
  BY ReleaseAssumption, Fates DEF Init, Atomic!Init, Names
<1>2. ASSUME IInv, [Next]_vars
      PROVE  [Atomic!Next]_<<dist[archive], [p \in Makes |-> Fate(pc[p])]>>
  <2> USE ReleaseAssumption
  <2> DEFINE fate == [p \in Makes |-> Fate(pc[p])]
  <2>a. TypeOK /\ archive \in Names
    BY <1>2 DEF IInv, Names
  <2>1. CASE UNCHANGED vars
    BY <2>1 DEF vars, locals
  <2>2. CASE Edit
    BY <2>2 DEF Edit, locals
  <2>3. ASSUME NEW p \in Makes, Start(p) \/ Step(p) \/ Break(p) \/ Kill(p)
        PROVE  \/ Atomic!Next
               \/ UNCHANGED <<dist[archive], fate>>
    <3>a. p # archive /\ p # checksums /\ fate[p] = Fate(pc[p])
      BY DEF Names
    <3>1. CASE Start(p)
      <4>1. pc[p] = "ready" /\ pc' = [pc EXCEPT ![p] = "collect"] /\ UNCHANGED dist
        BY <3>1 DEF Start, Goto
      <4>2. Atomic!Begin(p)
        <5>a. fate' = [fate EXCEPT ![p] = "running"]
          <6>1. fate' = [fate EXCEPT ![p] = Fate("collect")]
            BY <2>a, <4>1, FateStep
          <6> QED
            BY <6>1, Fates
        <5>b. fate[p] \in {"idle"}
          BY <3>a, <4>1, Fates
        <5> QED
          BY <4>1, <5>a, <5>b DEF Atomic!Begin, Atomic!Move
      <4> QED
        BY <4>2 DEF Atomic!Next
    <3>2. CASE IncludeFile(p) \/ IncludeDir(p) \/ WalkFile(p) \/ HashAsset(p)
      BY <2>a, <3>a, <3>2
      DEF IncludeFile, IncludeDir, WalkFile, HashAsset, Write, Temp, TypeOK
    <3>3. CASE CreateBundle(p) \/ WriteEntry(p) \/ CloseBundle(p)
      <4>1. PICK s \in {"write", "close", "rename"} :
              pc[p] \in {"collect", "write", "close"} /\ pc' = [pc EXCEPT ![p] = s]
        BY <3>3 DEF CreateBundle, WriteEntry, CloseBundle, Goto
      <4>2. UNCHANGED dist[archive]
        BY <2>a, <3>3, <3>a DEF CreateBundle, WriteEntry, CloseBundle, Write, Close, Temp, TypeOK
      <4>3. UNCHANGED fate
        BY <2>a, <4>1, FateStep, Fates
      <4> QED
        BY <4>2, <4>3
    <3>4. CASE RenameBundle(p)
      <4>1. pc[p] = "rename" /\ pc' = [pc EXCEPT ![p] = "sum"]
            /\ dist' = Renamed(dist, p, archive)
        BY <3>4 DEF RenameBundle, Rename, Renamed, Goto, Temp
      <4>2. dist[p] \in Archives
        BY <1>2, <4>1 DEF IInv, TempInv
      <4>3. dist'[archive] = dist[p]
        <5>1. DirOK(dist) /\ IsFile(dist[p])
          BY <2>a, <4>2, WholeIsFile DEF TypeOK, DirOK
        <5>2. Renamed(dist, p, archive)[archive] = dist[p]
          BY <5>1, RenameDir
        <5> QED
          BY <4>1, <5>2
      <4>4. Atomic!Publish(p)
        <5>a. fate' = [fate EXCEPT ![p] = "published"]
          <6>1. fate' = [fate EXCEPT ![p] = Fate("sum")]
            BY <2>a, <4>1, FateStep
          <6> QED
            BY <6>1, Fates
        <5>b. fate[p] \in {"running"}
          BY <3>a, <4>1, Fates
        <5> QED
          BY <4>2, <4>3, <5>a, <5>b DEF Atomic!Publish, Atomic!Move
      <4> QED
        BY <4>4 DEF Atomic!Next
    <3>5. CASE ListAssets(p) \/ CloseChecksums(p)
      <4>1. PICK s \in {"hash", "move"} :
              pc[p] \in {"sum", "hash"} /\ pc' = [pc EXCEPT ![p] = s]
        BY <3>5 DEF ListAssets, CloseChecksums, Goto
      <4>2. UNCHANGED dist[archive]
        BY <2>a, <3>5, <3>a DEF ListAssets, CloseChecksums, Write, Close, Temp, TypeOK
      <4>3. UNCHANGED fate
        BY <2>a, <4>1, FateStep, Fates
      <4> QED
        BY <4>2, <4>3
    <3>6. CASE RenameChecksums(p) \/ Fail(p) \/ Break(p) \/ Kill(p)
      <4>1. PICK s \in {"done", "failed", "killed"} :
              Active(p) /\ pc' = [pc EXCEPT ![p] = s]
        BY <3>6 DEF RenameChecksums, Fail, Break, Kill, GiveUp, Goto, Active
      <4>2. UNCHANGED dist[archive]
        BY <2>a, <3>6, <3>a
        DEF RenameChecksums, Fail, Break, Kill, GiveUp, Rename, Remove, Temp, TypeOK
      <4>3. Fate(pc[p]) \in {"running", "published"}
        BY <4>1, Fates DEF Active
      <4>4. Atomic!End(p)
        <5>a. fate' = [fate EXCEPT ![p] = "ended"]
          <6>1. fate' = [fate EXCEPT ![p] = Fate(s)]
            BY <2>a, <4>1, FateStep
          <6> QED
            BY <4>1, <6>1, Fates
        <5>b. fate[p] \in {"running", "published"}
          BY <3>a, <4>1, <4>3, Fates
        <5> QED
          BY <4>2, <5>a, <5>b DEF Atomic!End, Atomic!Move
      <4> QED
        BY <4>4 DEF Atomic!Next
    <3> QED
      BY <2>3, <3>1, <3>2, <3>3, <3>4, <3>5, <3>6 DEF Step
  <2> QED
    BY <1>2, <2>1, <2>2, <2>3 DEF Next
<1> QED
  BY <1>1, <1>2, InductiveInv, PTL DEF Spec, PublishesAtomically, Atomic!Spec

------------------------------------------------------------------------------
(* What a bundle holds of files nobody edits meanwhile.                       *)

Packing(p) == pc[p] \in {"collect", "write", "close", "rename"}

\* Every file of an include that was looked at is an entry or will be looked at.
SeenInv(p) ==
    /\ pc[p] = "ready" => walk[p] = {} /\ DOMAIN entries[p] = {}
    /\ pc[p] = "collect" =>
          /\ walk[p] \subseteq IncludedFiles
          /\ \A f \in walk[p] \ touched[p] : tree[f] # Absent
          /\ \A i \in Includes \ includes[p] : \A f \in i.paths \ touched[p] :
                tree[f] # Absent => f \in DOMAIN entries[p] \cup walk[p]
    /\ pc[p] \in {"write", "close", "rename"} =>
          \A f \in IncludedFiles \ touched[p] : tree[f] # Absent => f \in DOMAIN entries[p]

\* The entries are included files, and are as the stat saw them.
StatInv(p) ==
    Packing(p) =>
        /\ DOMAIN entries[p] \subseteq IncludedFiles
        /\ \A f \in DOMAIN entries[p] \ touched[p] :
              tree[f] \in Contents /\ entries[p][f] = Size[tree[f]]

\* What was copied is as it was when it was copied.
CopyInv(p) ==
    /\ pc[p] \in {"write", "close", "rename"} =>
          \A f \in DOMAIN dist[p].body \ touched[p] :
             dist[p].body[f] = [size |-> entries[p][f], text |-> tree[f]]
    /\ pc[p] = "rename" => DOMAIN dist[p].body = DOMAIN entries[p]

ExactAt(p) == SeenInv(p) /\ StatInv(p) /\ CopyInv(p)
ExactInv == \A p \in Makes : ExactAt(p)

\* A step of a run other than an edit leaves the tree and the other runs alone.
LEMMA OwnStep ==
    ASSUME IInv, NEW p \in Makes, Start(p) \/ Step(p) \/ Break(p) \/ Kill(p)
    PROVE  /\ UNCHANGED <<tree, touched>>
           /\ \A q \in Makes \ {p} :
                 /\ pc'[q] = pc[q] /\ includes'[q] = includes[q] /\ walk'[q] = walk[q]
                 /\ entries'[q] = entries[q] /\ assets'[q] = assets[q]
                 /\ dist'[q] = dist[q]
<1> USE ReleaseAssumption DEF IInv, TypeOK, ghosts
<1>a. \A q \in Makes : q \in Names /\ q # archive /\ q # checksums
  BY DEF Names
<1>1. CASE Start(p) \/ IncludeFile(p) \/ IncludeDir(p) \/ WalkFile(p)
  BY <1>1 DEF Start, IncludeFile, IncludeDir, WalkFile, Goto
<1>2. CASE CreateBundle(p) \/ WriteEntry(p) \/ CloseBundle(p)
  BY <1>2, <1>a DEF CreateBundle, WriteEntry, CloseBundle, Goto, Write, Close, Temp
<1>3. CASE RenameBundle(p) \/ RenameChecksums(p)
  BY <1>3, <1>a DEF RenameBundle, RenameChecksums, Goto, Idle, Rename, Temp
<1>4. CASE ListAssets(p) \/ HashAsset(p) \/ CloseChecksums(p)
  BY <1>4, <1>a DEF ListAssets, HashAsset, CloseChecksums, Goto, Write, Close, Temp
<1>5. CASE Fail(p) \/ Break(p) \/ Kill(p)
  BY <1>5, <1>a DEF Fail, Break, Kill, GiveUp, Remove, Goto, Idle, Temp
<1> QED
  BY <1>1, <1>2, <1>3, <1>4, <1>5 DEF Step

LEMMA OthersExact ==
    ASSUME IInv, ExactInv, NEW p \in Makes, Start(p) \/ Step(p) \/ Break(p) \/ Kill(p),
           ExactAt(p)'
    PROVE  ExactInv'
<1>1. ASSUME NEW q \in Makes \ {p} PROVE ExactAt(q)'
  <2>1. ExactAt(q)
    BY DEF ExactInv
  <2> QED
    BY <2>1, OwnStep DEF ExactAt, SeenInv, StatInv, CopyInv, Packing
<1> QED
  BY <1>1 DEF ExactInv

LEMMA CollectExact ==
    ASSUME IInv, ExactInv, NEW p \in Makes,
           Start(p) \/ IncludeFile(p) \/ IncludeDir(p) \/ WalkFile(p)
    PROVE  ExactAt(p)'
<1> USE ReleaseAssumption DEF IInv, TypeOK
<1>a. ExactAt(p)
  BY DEF ExactInv
<1>1. CASE Start(p)
  <2>1. /\ pc[p] = "ready" /\ pc'[p] = "collect" /\ includes'[p] = Includes
        /\ UNCHANGED <<tree, dist, walk, entries, touched>>
    BY <1>1 DEF Start, Goto
  <2> QED
    BY <1>a, <2>1 DEF ExactAt, SeenInv, StatInv, CopyInv, Packing
<1>2. CASE IncludeFile(p)
  <2>1. PICK i \in Includes, f \in Paths :
          /\ pc[p] = "collect" /\ walk[p] = {} /\ i \in includes[p]
          /\ ~i.dir /\ f \in i.paths /\ tree[f] \in Contents
          /\ entries' = [entries EXCEPT ![p] =
                IF f \in DOMAIN entries[p] THEN entries[p]
                ELSE Put(entries[p], f, Size[tree[f]])]
          /\ includes' = [includes EXCEPT ![p] = @ \ {i}]
    BY <1>2 DEF IncludeFile, Including
  <2>2. UNCHANGED <<tree, dist, pc, walk, touched>>
    BY <1>2 DEF IncludeFile, ghosts
  <2>3. /\ DOMAIN entries'[p] = DOMAIN entries[p] \cup {f}
        /\ \A g \in DOMAIN entries[p] : entries'[p][g] = entries[p][g]
        /\ f \notin DOMAIN entries[p] => entries'[p][f] = Size[tree[f]]
    <3>1. entries'[p] = IF f \in DOMAIN entries[p] THEN entries[p]
                        ELSE Put(entries[p], f, Size[tree[f]])
      BY <2>1
    <3> QED
      BY <3>1 DEF Put
  <2>4. i.paths = {f} /\ f \in IncludedFiles /\ includes'[p] = includes[p] \ {i}
    BY <2>1 DEF IncludedFiles
  <2>5. SeenInv(p)'
    BY <1>a, <2>1, <2>2, <2>3, <2>4 DEF ExactAt, SeenInv
  <2>6. StatInv(p)'
    BY <1>a, <2>1, <2>2, <2>3, <2>4 DEF ExactAt, StatInv, Packing
  <2>7. CopyInv(p)'
    BY <2>1, <2>2 DEF CopyInv
  <2> QED
    BY <2>5, <2>6, <2>7 DEF ExactAt
<1>3. CASE IncludeDir(p)
  <2>1. PICK i \in Includes :
          /\ pc[p] = "collect" /\ walk[p] = {} /\ i \in includes[p]
          /\ walk' = [walk EXCEPT ![p] = Present(i.paths)]
          /\ includes' = [includes EXCEPT ![p] = @ \ {i}]
    BY <1>3 DEF IncludeDir, Including
  <2>2. UNCHANGED <<tree, dist, pc, entries, touched>>
    BY <1>3 DEF IncludeDir, ghosts
  <2>3. /\ walk'[p] = {f \in i.paths : tree[f] # Absent}
        /\ includes'[p] = includes[p] \ {i}
    BY <2>1 DEF Present
  <2>4. i.paths \subseteq IncludedFiles
    BY DEF IncludedFiles
  <2>5. SeenInv(p)'
    BY <1>a, <2>1, <2>2, <2>3, <2>4 DEF ExactAt, SeenInv
  <2>6. StatInv(p)' /\ CopyInv(p)'
    BY <1>a, <2>1, <2>2 DEF ExactAt, StatInv, CopyInv, Packing
  <2> QED
    BY <2>5, <2>6 DEF ExactAt
<1>4. CASE WalkFile(p)
  <2>1. PICK f \in walk[p] :
          /\ pc[p] = "collect" /\ tree[f] \in Contents
          /\ entries' = [entries EXCEPT ![p] =
                IF f \in DOMAIN entries[p] THEN entries[p]
                ELSE Put(entries[p], f, Size[tree[f]])]
          /\ walk' = [walk EXCEPT ![p] = @ \ {f}]
    BY <1>4 DEF WalkFile
  <2>2. UNCHANGED <<tree, dist, pc, includes, touched>>
    BY <1>4 DEF WalkFile, ghosts
  <2>3. /\ DOMAIN entries'[p] = DOMAIN entries[p] \cup {f}
        /\ \A g \in DOMAIN entries[p] : entries'[p][g] = entries[p][g]
        /\ f \notin DOMAIN entries[p] => entries'[p][f] = Size[tree[f]]
    <3>1. entries'[p] = IF f \in DOMAIN entries[p] THEN entries[p]
                        ELSE Put(entries[p], f, Size[tree[f]])
      BY <2>1
    <3> QED
      BY <3>1 DEF Put
  <2>4. walk'[p] = walk[p] \ {f} /\ f \in IncludedFiles
    BY <1>a, <2>1 DEF ExactAt, SeenInv
  <2>5. SeenInv(p)'
    BY <1>a, <2>1, <2>2, <2>3, <2>4 DEF ExactAt, SeenInv
  <2>6. StatInv(p)'
    BY <1>a, <2>1, <2>2, <2>3, <2>4 DEF ExactAt, StatInv, Packing
  <2>7. CopyInv(p)'
    BY <2>1, <2>2 DEF CopyInv
  <2> QED
    BY <2>5, <2>6, <2>7 DEF ExactAt
<1> QED
  BY <1>1, <1>2, <1>3, <1>4

LEMMA WriteExact ==
    ASSUME IInv, ExactInv, NEW p \in Makes,
           CreateBundle(p) \/ WriteEntry(p) \/ CloseBundle(p)
    PROVE  ExactAt(p)'
<1> USE ReleaseAssumption DEF IInv, TypeOK
<1>a. ExactAt(p) /\ TempInv(p) /\ p \in Names
  BY DEF ExactInv, Names
<1>1. CASE CreateBundle(p)
  <2>1. /\ pc[p] = "collect" /\ includes[p] = {} /\ walk[p] = {} /\ pc'[p] = "write"
        /\ dist'[p] = [closed |-> FALSE, body |-> Empty]
        /\ UNCHANGED <<tree, entries, touched>>
    BY <1>a, <1>1 DEF CreateBundle, Write, Temp, Goto, ghosts
  <2>2. SeenInv(p)'
    BY <1>a, <2>1 DEF ExactAt, SeenInv, IncludedFiles
  <2>3. StatInv(p)' /\ CopyInv(p)'
    BY <1>a, <2>1 DEF ExactAt, StatInv, CopyInv, Packing, Empty
  <2> QED
    BY <2>2, <2>3 DEF ExactAt
<1>2. CASE WriteEntry(p)
  <2>1. PICK f \in walk[p] :
          /\ pc[p] = "write" /\ tree[f] \in Contents
          /\ dist' = [dist EXCEPT ![p] = [closed |-> FALSE, body |->
                Put(dist[p].body, f, [size |-> entries[p][f], text |-> tree[f]])]]
          /\ pc' = [pc EXCEPT ![p] = IF walk[p] = {f} THEN "close" ELSE "write"]
    BY <1>2 DEF WriteEntry, Write, Temp, Goto
  <2>2. UNCHANGED <<tree, entries, touched>> /\ pc'[p] \in {"write", "close"}
    BY <1>2, <2>1 DEF WriteEntry, ghosts
  <2>3. dist'[p].body = Put(dist[p].body, f, [size |-> entries[p][f], text |-> tree[f]])
    BY <1>a, <2>1
  <2>4. SeenInv(p)' /\ StatInv(p)'
    BY <1>a, <2>1, <2>2 DEF ExactAt, SeenInv, StatInv, Packing
  <2>5. CopyInv(p)'
    BY <1>a, <2>1, <2>2, <2>3 DEF ExactAt, CopyInv, Put
  <2> QED
    BY <2>4, <2>5 DEF ExactAt
<1>3. CASE CloseBundle(p)
  <2>1. /\ pc[p] = "close" /\ pc'[p] = "rename" /\ dist'[p].body = dist[p].body
        /\ UNCHANGED <<tree, entries, touched>>
    BY <1>a, <1>3 DEF CloseBundle, Close, Temp, Goto, ghosts
  <2>2. DOMAIN dist[p].body = DOMAIN entries[p]
    BY <1>a, <2>1 DEF TempInv
  <2> QED
    BY <1>a, <2>1, <2>2 DEF ExactAt, SeenInv, StatInv, CopyInv, Packing
<1> QED
  BY <1>1, <1>2, <1>3

\* The bundle is out, or the run is over.
LEMMA EndExact ==
    ASSUME IInv, ExactInv, NEW p \in Makes,
           \/ RenameBundle(p) \/ ListAssets(p) \/ HashAsset(p)
           \/ CloseChecksums(p) \/ RenameChecksums(p)
           \/ Fail(p) \/ Break(p) \/ Kill(p)
    PROVE  ExactAt(p)'
<1>1. pc'[p] \in {"sum", "hash", "move", "done", "failed", "killed"}
  BY DEF IInv, TypeOK, RenameBundle, ListAssets, HashAsset, CloseChecksums, RenameChecksums,
         Fail, Break, Kill, GiveUp, Goto
<1> QED
  BY <1>1 DEF ExactAt, SeenInv, StatInv, CopyInv, Packing

LEMMA EditExact == ASSUME IInv, ExactInv, Edit PROVE ExactInv'
<1>1. PICK f \in Paths, c \in Contents \cup {Absent} :
        /\ tree' = [tree EXCEPT ![f] = c]
        /\ touched' = [p \in Makes |-> touched[p] \cup IF Active(p) THEN {f} ELSE {}]
  BY DEF Edit
<1>2. UNCHANGED <<dist, pc, includes, walk, entries>>
  BY DEF Edit, locals
<1>3. ASSUME NEW p \in Makes PROVE ExactAt(p)'
  <2>1. ExactAt(p)
    BY DEF ExactInv
  <2>2. Packing(p) => f \in touched'[p] /\ touched[p] \subseteq touched'[p]
    BY <1>1 DEF Packing, Active
  <2>3. \A g \in Paths : g # f => tree'[g] = tree[g]
    BY <1>1 DEF IInv, TypeOK
  <2>4. /\ IncludedFiles \subseteq Paths /\ walk[p] \subseteq Paths
        /\ DOMAIN entries[p] \subseteq Paths
    BY ReleaseAssumption DEF IInv, TypeOK, IncludedFiles
  <2>5. SeenInv(p)'
    <3>1. \A i \in Includes : i.paths \subseteq Paths
      BY ReleaseAssumption
    <3> QED
      BY <1>2, <2>1, <2>2, <2>3, <2>4, <3>1 DEF ExactAt, SeenInv, Packing
  <2>6. StatInv(p)'
    BY <1>2, <2>1, <2>2, <2>3, <2>4 DEF ExactAt, StatInv, Packing
  <2>7. CopyInv(p)'
    <3>1. pc[p] \in {"write", "close", "rename"} => DOMAIN dist[p].body \subseteq Paths
      BY <2>1, <2>4 DEF IInv, TempInv, ExactAt, CopyInv
    <3> QED
      BY <1>2, <2>1, <2>2, <2>3, <3>1 DEF ExactAt, CopyInv, Packing
  <2> QED
    BY <2>5, <2>6, <2>7 DEF ExactAt
<1> QED
  BY <1>3 DEF ExactInv

LEMMA StaysExact == Spec => []ExactInv
<1>1. Init => ExactInv
  BY DEF Init, ExactInv, ExactAt, SeenInv, StatInv, CopyInv, Packing, Empty
<1>2. ASSUME IInv, ExactInv, [Next]_vars PROVE ExactInv'
  <2>1. CASE UNCHANGED vars
    BY <1>2, <2>1 DEF vars, locals, ghosts, ExactInv, ExactAt, SeenInv, StatInv, CopyInv, Packing
  <2>2. CASE Edit
    BY <1>2, <2>2, EditExact
  <2>3. ASSUME NEW p \in Makes, Start(p) \/ Step(p) \/ Break(p) \/ Kill(p)
        PROVE  ExactInv'
    <3>1. ExactAt(p)'
      BY <1>2, <2>3, CollectExact, WriteExact, EndExact DEF Step
    <3> QED
      BY <1>2, <2>3, <3>1, OthersExact
  <2> QED
    BY <1>2, <2>1, <2>2, <2>3 DEF Next
<1> QED
  BY <1>1, <1>2, InductiveInv, PTL DEF Spec

\* Who publishes a bundle renames it.
LEMMA PublishIsRename ==
    ASSUME IInv, [Next]_vars, NEW p \in Makes, PublishesBundle(p)
    PROVE  RenameBundle(p)
<1>1. pc[p] = "rename" /\ pc'[p] = "sum"
  BY DEF PublishesBundle
<1>2. ~UNCHANGED vars /\ ~Edit
  BY <1>1 DEF vars, locals, Edit
<1>3. Start(p) \/ Step(p) \/ Break(p) \/ Kill(p)
  BY <1>1, <1>2, OwnStep DEF Next
<1> QED
  BY <1>1, <1>3
  DEF IInv, TypeOK, Step, Start, IncludeFile, IncludeDir, WalkFile, Including, CreateBundle,
      WriteEntry, CloseBundle, ListAssets, HashAsset, CloseChecksums, RenameChecksums,
      Fail, Break, Kill, GiveUp, Goto

\* Edits during a run disturb only the files they touch.
THEOREM UntouchedFilesArePacked == Spec => UntouchedFilesExact
<1>1. ASSUME IInv, ExactInv, [Next]_vars, NEW p \in Makes, PublishesBundle(p)
      PROVE  LET body == dist'[archive].body IN
             /\ DOMAIN body \subseteq IncludedFiles
             /\ \A f \in IncludedFiles \ touched[p] :
                   IF tree[f] \in Contents
                   THEN f \in DOMAIN body /\ body[f].text = tree[f]
                   ELSE f \notin DOMAIN body
  <2>1. pc[p] = "rename" /\ dist' = Renamed(dist, p, archive)
    BY <1>1, PublishIsRename DEF RenameBundle, Rename, Renamed, Temp
  <2>2. dist'[archive] = dist[p]
    <3>1. DirOK(dist) /\ IsFile(dist[p])
      BY <1>1, <2>1, WholeIsFile DEF IInv, TypeOK, TempInv, DirOK
    <3>2. Renamed(dist, p, archive)[archive] = dist[p]
      BY <3>1, RenameDir
    <3> QED
      BY <2>1, <3>2
  <2>3. SeenInv(p) /\ StatInv(p) /\ CopyInv(p)
    BY <1>1 DEF ExactInv, ExactAt
  <2>4. /\ DOMAIN dist[p].body = DOMAIN entries[p]
        /\ DOMAIN entries[p] \subseteq IncludedFiles
        /\ \A f \in DOMAIN entries[p] \ touched[p] :
              tree[f] \in Contents /\ dist[p].body[f].text = tree[f]
    <3>1. DOMAIN dist[p].body = DOMAIN entries[p]
      BY <2>1, <2>3 DEF CopyInv
    <3>2. \A f \in DOMAIN dist[p].body \ touched[p] :
             dist[p].body[f] = [size |-> entries[p][f], text |-> tree[f]]
      BY <2>1, <2>3 DEF CopyInv
    <3>3. /\ DOMAIN entries[p] \subseteq IncludedFiles
          /\ \A f \in DOMAIN entries[p] \ touched[p] : tree[f] \in Contents
      BY <2>1, <2>3 DEF StatInv, Packing
    <3>4. ASSUME NEW f \in DOMAIN entries[p] \ touched[p]
          PROVE  dist[p].body[f].text = tree[f]
      <4>1. dist[p].body[f] = [size |-> entries[p][f], text |-> tree[f]]
        BY <3>1, <3>2
      <4> QED
        BY <4>1
    <3> QED
      BY <3>1, <3>3, <3>4
  <2>5. \A f \in IncludedFiles \ touched[p] : tree[f] # Absent => f \in DOMAIN entries[p]
    BY <2>1, <2>3 DEF SeenInv
  <2>6. ASSUME NEW f \in IncludedFiles \ touched[p]
        PROVE  IF tree[f] \in Contents
               THEN f \in DOMAIN dist[p].body /\ dist[p].body[f].text = tree[f]
               ELSE f \notin DOMAIN dist[p].body
    <3>1. CASE tree[f] \in Contents
      BY <2>4, <2>5, <3>1, ReleaseAssumption
    <3>2. CASE tree[f] \notin Contents
      BY <2>4, <3>2
    <3> QED
      BY <3>1, <3>2
  <2> QED
    BY <2>2, <2>4, <2>6
<1>2. IInv /\ ExactInv /\ [Next]_vars
      => [\A p \in Makes : PublishesBundle(p) =>
             LET body == dist'[archive].body IN
             /\ DOMAIN body \subseteq IncludedFiles
             /\ \A f \in IncludedFiles \ touched[p] :
                   IF tree[f] \in Contents
                   THEN f \in DOMAIN body /\ body[f].text = tree[f]
                   ELSE f \notin DOMAIN body]_vars
  BY <1>1
<1> QED
  BY <1>2, InductiveInv, StaysExact, PTL DEF UntouchedFilesExact, Spec

------------------------------------------------------------------------------
(* What checksums.txt lists.                                                  *)

\* A run that is alone is the only active one.
AloneInv == \A p, q \in Makes : Active(p) /\ alone[p] /\ Active(q) => q = p

\* The files a run lists are there and stay as they were hashed, if it is alone;
\* the archive is one of them, its own temporary file and checksums.txt are not.
AssetInv(p) ==
    /\ pc[p] \in {"sum", "hash", "move"} => dist[archive] # Absent
    /\ pc[p] = "sum" => dist[p] = Absent
    /\ pc[p] = "hash" => assets[p] \subseteq Names \ {checksums, p}
    /\ pc[p] = "move" => assets[p] = {}
    /\ pc[p] \in {"hash", "move"} =>
          /\ archive \in assets[p] \cup DOMAIN dist[p].body
          /\ DOMAIN dist[p].body \subseteq Names \ {checksums, p}
          /\ alone[p] => /\ \A n \in assets[p] : dist[n] # Absent
                         /\ \A n \in DOMAIN dist[p].body : dist[n] = dist[p].body[n]

ListInv == AloneInv /\ \A p \in Makes : AssetInv(p)

LEMMA StepActive ==
    ASSUME NEW p \in Makes, Step(p) \/ Break(p) \/ Kill(p)
    PROVE  Active(p) /\ UNCHANGED alone
BY DEF Step, IncludeFile, IncludeDir, WalkFile, Including, CreateBundle, WriteEntry, CloseBundle,
       RenameBundle, ListAssets, HashAsset, CloseChecksums, RenameChecksums, Fail, Break, Kill,
       GiveUp, Active, ghosts

\* The archive is replaced by another one, never removed.
LEMMA ArchiveStays ==
    ASSUME IInv, NEW p \in Makes, Start(p) \/ Step(p) \/ Break(p) \/ Kill(p)
    PROVE  /\ dist[archive] # Absent => dist'[archive] # Absent
           /\ RenameBundle(p) => dist'[archive] # Absent
<1> USE ReleaseAssumption
<1>a. archive \in Names /\ p # archive
  BY DEF Names
<1>b. DOMAIN dist = Names
  BY DEF IInv, TypeOK
<1>1. CASE RenameBundle(p)
  <2>1. pc[p] = "rename" /\ dist' = Renamed(dist, p, archive)
    BY <1>1 DEF RenameBundle, Rename, Renamed, Temp
  <2>2. dist[p] \in Archives
    BY <2>1 DEF IInv, TempInv
  <2>3. DirOK(dist) /\ IsFile(dist[p])
    BY <2>2, WholeIsFile DEF IInv, TypeOK, DirOK
  <2>4. Renamed(dist, p, archive)[archive] = dist[p]
    BY <2>3, RenameDir
  <2> QED
    BY <2>1, <2>2, <2>4, ArchiveAssumption
<1>2. CASE ~RenameBundle(p)
  <2>1. dist'[archive] = dist[archive]
    BY <1>2, <1>a, <1>b
    DEF Step, Start, IncludeFile, IncludeDir, WalkFile, CreateBundle, WriteEntry, CloseBundle,
        ListAssets, HashAsset, CloseChecksums, RenameChecksums, Fail, Break, Kill, GiveUp,
        Write, Close, Rename, Remove, Temp
  <2> QED
    BY <1>2, <2>1
<1> QED
  BY <1>1, <1>2

LEMMA AloneStep ==
    ASSUME IInv, AloneInv, NEW p \in Makes, Start(p) \/ Step(p) \/ Break(p) \/ Kill(p)
    PROVE  AloneInv'
<1>1. CASE Start(p)
  <2>1. /\ pc[p] = "ready"
        /\ \A q \in Makes : alone'[q] = IF q = p THEN \A r \in Makes : ~Active(r)
                                        ELSE alone[q] /\ ~Active(q)
    BY <1>1 DEF Start
  <2>2. \A q \in Makes : q # p => pc'[q] = pc[q]
    BY <1>1, OwnStep
  <2> QED
    BY <2>1, <2>2 DEF AloneInv, Active
<1>2. CASE ~Start(p)
  <2>1. Active(p) /\ UNCHANGED alone
    BY <1>2, StepActive
  <2>2. \A q \in Makes : Active(q)' => Active(q)
    BY <2>1, OwnStep DEF Active
  <2> QED
    BY <2>1, <2>2 DEF AloneInv
<1> QED
  BY <1>1, <1>2

\* Other runs: those that could disturb the list make the run be no longer alone.
LEMMA OthersList ==
    ASSUME IInv, ListInv, NEW p \in Makes, Start(p) \/ Step(p) \/ Break(p) \/ Kill(p),
           NEW q \in Makes \ {p}
    PROVE  AssetInv(q)'
<1>1. AssetInv(q)
  BY DEF ListInv
<1>2. pc'[q] = pc[q] /\ assets'[q] = assets[q] /\ dist'[q] = dist[q]
  BY OwnStep
<1>3. dist[archive] # Absent => dist'[archive] # Absent
  BY ArchiveStays
<1>4. pc[q] \in {"hash", "move"} => ~alone'[q]
  <2>1. CASE Start(p)
    <3>1. alone'[q] = (alone[q] /\ ~Active(q))
      BY <2>1 DEF Start
    <3> QED
      BY <3>1 DEF Active
  <2>2. CASE ~Start(p)
    BY <2>2, StepActive DEF ListInv, AloneInv, Active
  <2> QED
    BY <2>1, <2>2
<1> QED
  BY <1>1, <1>2, <1>3, <1>4 DEF AssetInv

LEMMA OwnList ==
    ASSUME IInv, ListInv, NEW p \in Makes, Start(p) \/ Step(p) \/ Break(p) \/ Kill(p)
    PROVE  AssetInv(p)'
<1> USE ReleaseAssumption DEF IInv, TypeOK
<1>a. AssetInv(p) /\ p \in Names /\ archive \in Names /\ p # archive /\ p # checksums
  BY DEF ListInv, Names
<1>b. dist[archive] # Absent => dist'[archive] # Absent
  BY ArchiveStays
<1>1. CASE RenameBundle(p)
  <2>1. pc'[p] = "sum" /\ dist'[archive] # Absent
    BY <1>1, ArchiveStays DEF RenameBundle, Goto
  <2>2. dist'[p] = Absent
    BY <1>1, <1>a DEF RenameBundle, Rename, Temp
  <2> QED
    BY <2>1, <2>2 DEF AssetInv
<1>2. CASE ListAssets(p)
  <2>1. /\ pc[p] = "sum" /\ pc'[p] = "hash" /\ assets'[p] = Listed
        /\ dist'[p] = [closed |-> FALSE, body |-> Empty]
        /\ \A n \in Names : n # p => dist'[n] = dist[n]
    BY <1>2, <1>a DEF ListAssets, Write, Goto, Temp
  <2>2. dist[p] = Absent /\ dist[archive] # Absent
    BY <1>a, <2>1 DEF AssetInv
  <2>3. Listed \subseteq Names \ {checksums, p} /\ archive \in Listed
    BY <1>a, <2>2 DEF Listed
  <2>4. \A n \in Listed : dist'[n] # Absent
    BY <2>1, <2>3 DEF Listed
  <2>5. DOMAIN dist'[p].body = {}
    BY <2>1 DEF Empty
  <2> QED
    BY <1>b, <2>1, <2>2, <2>3, <2>4, <2>5 DEF AssetInv
<1>3. CASE HashAsset(p)
  <2>1. PICK n \in assets[p] :
          /\ pc[p] = "hash" /\ dist[n] # Absent
          /\ dist' = [dist EXCEPT ![p] =
                        [closed |-> FALSE, body |-> Put(dist[p].body, n, dist[n])]]
          /\ assets' = [assets EXCEPT ![p] = @ \ {n}]
    BY <1>3 DEF HashAsset, Write, Temp
  <2>2. pc'[p] = "hash" /\ UNCHANGED alone
    BY <1>3, <2>1 DEF HashAsset, ghosts
  <2>3. /\ assets'[p] = assets[p] \ {n}
        /\ dist'[p].body = Put(dist[p].body, n, dist[n])
        /\ \A m \in Names : m # p => dist'[m] = dist[m]
    BY <1>a, <2>1
  <2>4. assets[p] \subseteq Names \ {checksums, p}
    BY <1>a, <2>1 DEF AssetInv
  <2>5. /\ DOMAIN dist'[p].body = DOMAIN dist[p].body \cup {n}
        /\ \A m \in DOMAIN dist'[p].body :
              dist'[p].body[m] = IF m = n THEN dist[n] ELSE dist[p].body[m]
    BY <2>3 DEF Put
  <2>6. /\ archive \in assets'[p] \cup DOMAIN dist'[p].body
        /\ DOMAIN dist'[p].body \subseteq Names \ {checksums, p}
    BY <1>a, <2>1, <2>3, <2>4, <2>5 DEF AssetInv
  <2>7. ASSUME alone'[p]
        PROVE  /\ \A m \in assets'[p] : dist'[m] # Absent
               /\ \A m \in DOMAIN dist'[p].body : dist'[m] = dist'[p].body[m]
    <3>1. /\ \A m \in assets[p] : dist[m] # Absent
          /\ \A m \in DOMAIN dist[p].body : dist[m] = dist[p].body[m]
      BY <1>a, <2>1, <2>2, <2>7 DEF AssetInv
    <3>2. \A m \in assets'[p] : dist'[m] # Absent
      BY <2>3, <2>4, <3>1
    <3>3. \A m \in DOMAIN dist'[p].body : dist'[m] = dist'[p].body[m]
      BY <2>3, <2>5, <2>6, <3>1
    <3> QED
      BY <3>2, <3>3
  <2> QED
    BY <1>a, <1>b, <2>1, <2>2, <2>3, <2>4, <2>6, <2>7 DEF AssetInv
<1>4. CASE CloseChecksums(p)
  <2>1. /\ pc[p] = "hash" /\ pc'[p] = "move" /\ assets[p] = {}
        /\ dist'[p].body = dist[p].body /\ UNCHANGED <<assets, alone>>
        /\ \A n \in Names : n # p => dist'[n] = dist[n]
    BY <1>4, <1>a DEF CloseChecksums, Close, Goto, Temp, ghosts
  <2>2. DOMAIN dist[p].body \subseteq Names \ {checksums, p}
    BY <1>a, <2>1 DEF AssetInv
  <2> QED
    BY <1>a, <1>b, <2>1, <2>2 DEF AssetInv
<1>5. CASE ~(RenameBundle(p) \/ ListAssets(p) \/ HashAsset(p) \/ CloseChecksums(p))
  <2>1. pc'[p] \notin {"sum", "hash", "move"}
    BY <1>5 DEF Step, Start, IncludeFile, IncludeDir, WalkFile, Including, CreateBundle,
       WriteEntry, CloseBundle, RenameChecksums, Fail, Break, Kill, GiveUp, Goto
  <2> QED
    BY <2>1 DEF AssetInv
<1> QED
  BY <1>1, <1>2, <1>3, <1>4, <1>5

LEMMA StaysListed == Spec => []ListInv
<1>1. Init => ListInv
  BY DEF Init, ListInv, AloneInv, AssetInv, Active
<1>2. ASSUME IInv, ListInv, [Next]_vars PROVE ListInv'
  <2>1. CASE UNCHANGED vars \/ Edit
    <3>1. UNCHANGED <<dist, pc, assets, alone>>
      BY <2>1 DEF vars, locals, ghosts, Edit
    <3> QED
      BY <1>2, <3>1 DEF ListInv, AloneInv, AssetInv, Active
  <2>2. ASSUME NEW p \in Makes, Start(p) \/ Step(p) \/ Break(p) \/ Kill(p)
        PROVE  ListInv'
    BY <1>2, <2>2, AloneStep, OthersList, OwnList DEF ListInv
  <2> QED
    BY <1>2, <2>1, <2>2 DEF Next
<1> QED
  BY <1>1, <1>2, InductiveInv, PTL DEF Spec

\* What checksums.txt says of the directory is true when it appears.
THEOREM ChecksumsAreTrue == Spec => ChecksumsExact
<1> DEFINE ListTells(p) ==
      PublishesChecksums(p) /\ alone[p] =>
          LET body == dist'[checksums].body IN
          /\ archive \in DOMAIN body
          /\ \A n \in DOMAIN body : dist'[n] = body[n]
<1>1. ASSUME IInv, ListInv, [Next]_vars, NEW p \in Makes PROVE ListTells(p)
  <2> SUFFICES ASSUME pc[p] = "move", pc'[p] = "done", alone[p]
               PROVE  /\ archive \in DOMAIN dist'[checksums].body
                      /\ \A n \in DOMAIN dist'[checksums].body :
                            dist'[n] = dist'[checksums].body[n]
    BY DEF PublishesChecksums
  <2>1. RenameChecksums(p)
    <3>1. Start(p) \/ Step(p) \/ Break(p) \/ Kill(p)
      BY <1>1, OwnStep DEF Next, vars, locals, Edit
    <3> QED
      BY <1>1, <3>1
      DEF IInv, TypeOK, Step, Start, IncludeFile, IncludeDir, WalkFile, Including, CreateBundle,
          WriteEntry, CloseBundle, RenameBundle, ListAssets, HashAsset, CloseChecksums,
          Fail, Break, Kill, GiveUp, Goto
  <2>2. dist' = [dist EXCEPT ![checksums] = dist[p], ![p] = Absent]
    BY <2>1 DEF RenameChecksums, Rename, Temp
  <2>3. p \in Names /\ checksums \in Names /\ p # checksums /\ DOMAIN dist = Names
    BY <1>1, ReleaseAssumption DEF Names, IInv, TypeOK
  <2>4. /\ dist'[checksums] = dist[p]
        /\ \A n \in Names \ {checksums, p} : dist'[n] = dist[n]
    BY <2>2, <2>3
  <2>5. /\ archive \in DOMAIN dist[p].body
        /\ DOMAIN dist[p].body \subseteq Names \ {checksums, p}
        /\ \A n \in DOMAIN dist[p].body : dist[n] = dist[p].body[n]
    BY <1>1 DEF ListInv, AssetInv
  <2> QED
    BY <2>4, <2>5
<1> HIDE DEF ListTells
<1>2. IInv /\ ListInv /\ [Next]_vars => [\A p \in Makes : ListTells(p)]_vars
  BY <1>1
<1> QED
  BY <1>2, InductiveInv, StaysListed, PTL DEF ChecksumsExact, Spec, ListTells

\* A run that met no error of the file system, no other run and no edit fails only
\* for what is in the tree.
THEOREM FailuresHaveReasons == Spec => FailsForAReason
<1> DEFINE Justified(p) ==
      /\ Active(p) /\ pc'[p] = "failed" /\ failures' = failures
      /\ alone[p] /\ touched[p] = {}
      => BadTree
<1>1. ASSUME IInv, ExactInv, ListInv, [Next]_vars, NEW p \in Makes PROVE Justified(p)
  <2> SUFFICES ASSUME Active(p), pc'[p] = "failed", failures' = failures,
                      alone[p], touched[p] = {}
               PROVE  BadTree
    OBVIOUS
  <2> USE <1>1, ReleaseAssumption
  <2>a. SeenInv(p) /\ StatInv(p) /\ CopyInv(p) /\ AssetInv(p) /\ TempInv(p)
    BY DEF ExactInv, ExactAt, ListInv, IInv
  <2>1. Refused(p)
    <3>1. Start(p) \/ Step(p) \/ Break(p) \/ Kill(p)
      BY OwnStep DEF Next, vars, locals, Edit, Active
    <3>2. Fail(p) \/ Break(p)
      BY <3>1
      DEF IInv, TypeOK, Step, Start, IncludeFile, IncludeDir, WalkFile, Including, CreateBundle,
          WriteEntry, CloseBundle, RenameBundle, ListAssets, HashAsset, CloseChecksums,
          RenameChecksums, Kill, Goto, Active
    <3>3. ~Break(p)
      BY DEF Break, IInv, TypeOK
    <3> QED
      BY <3>2, <3>3 DEF Fail
  <2>2. CASE BadInclude(p)
    BY <2>2 DEF BadInclude, BadTree, IncludedFiles
  <2>3. CASE BadFile(p)
    BY <2>3, <2>a DEF BadFile, SeenInv, BadTree
  <2>4. CASE NoFiles(p)
    <3>1. pc[p] = "collect" /\ includes[p] = {} /\ walk[p] = {} /\ DOMAIN entries[p] = {}
      BY <2>4 DEF NoFiles, Empty
    <3>2. \A i \in Includes : \A f \in i.paths : tree[f] = Absent
      BY <2>a, <3>1 DEF SeenInv
    <3> QED
      BY <3>2 DEF BadTree, IncludedFiles
  <2>5. CASE BadCopy(p)
    <3>1. PICK f \in walk[p] : pc[p] = "write" /\ (tree[f] \in Contents =>
                                                    Size[tree[f]] > entries[p][f])
      BY <2>5 DEF BadCopy
    <3>2. f \in DOMAIN entries[p]
      BY <2>a, <3>1 DEF TempInv
    <3>3. tree[f] \in Contents /\ entries[p][f] = Size[tree[f]]
      BY <2>a, <3>1, <3>2 DEF StatInv, Packing
    <3> QED
      BY <3>1, <3>3
  <2>6. CASE Short(p)
    <3>1. PICK f \in DOMAIN dist[p].body :
            /\ pc[p] \in {"write", "close"}
            /\ Size[dist[p].body[f].text] < dist[p].body[f].size
      BY <2>6 DEF Short, Temp
    <3>2. dist[p].body[f] = [size |-> entries[p][f], text |-> tree[f]]
      BY <2>a, <3>1 DEF CopyInv
    <3>3. f \in DOMAIN entries[p]
      BY <2>a, <3>1 DEF TempInv
    <3>4. tree[f] \in Contents /\ entries[p][f] = Size[tree[f]]
      BY <2>a, <3>1, <3>3 DEF StatInv, Packing
    <3>5. Size[tree[f]] < entries[p][f]
      BY <3>1, <3>2
    <3> QED
      BY <3>4, <3>5
  <2>7. CASE NoAssets(p)
    BY <2>7, <2>a DEF NoAssets, AssetInv, Listed, Names
  <2>8. CASE BadAsset(p)
    BY <2>8, <2>a DEF BadAsset, AssetInv
  <2> QED
    BY <2>1, <2>2, <2>3, <2>4, <2>5, <2>6, <2>7, <2>8 DEF Refused
<1> HIDE DEF Justified
<1>2. IInv /\ ExactInv /\ ListInv /\ [Next]_vars => [\A p \in Makes : Justified(p)]_vars
  BY <1>1
<1> QED
  BY <1>2, InductiveInv, StaysExact, StaysListed, PTL DEF FailsForAReason, Spec, Justified
=============================================================================
