---------------------------- MODULE ReleaseBundle ----------------------------
(***************************************************************************)
(* make release-artifacts: "release bundle" packs files of the repository   *)
(* into an archive, "release checksums" lists what is in the release        *)
(* directory (internal/release/bundle.go).  Each writes to a temporary file *)
(* in that directory and renames it; a deferred function removes it.        *)
(*                                                                         *)
(* Runs fail, are killed, start again and overlap, while somebody edits the *)
(* working tree.  A file is read in one piece, and an edit makes no links.  *)
(* One release version; the checksum of a file stands for its content.      *)
(***************************************************************************)
EXTENDS Integers, FiniteSets

CONSTANTS
    Paths,      \* files that may be in the working tree, in lexical order
    Includes,   \* the included files and directories, as sets of paths
    Contents,   \* contents of a file
    Size,       \* their sizes
    Makes,      \* runs of make release-artifacts
    archive,    \* openbao-observability_<version>.tar.gz
    checksums,  \* checksums.txt
    Absent,     \* no file
    Link,       \* a symbolic link
    MaxEdits, MaxFailures, MaxKills  \* bounds

ASSUME ReleaseAssumption ==
    /\ Paths \subseteq Nat
    /\ Includes \subseteq [dir : BOOLEAN, paths : SUBSET Paths]
    /\ \A i \in Includes : ~i.dir => \E f \in Paths : i.paths = {f}
    /\ Size \in [Contents -> Nat]
    /\ Absent \notin Contents /\ Link \notin Contents /\ Absent # Link
    /\ archive # checksums /\ archive \notin Makes /\ checksums \notin Makes
    /\ MaxEdits \in Nat /\ MaxFailures \in Nat /\ MaxKills \in Nat

VARIABLES
    tree,      \* the working tree: a content, Link or Absent
    dist,      \* the release directory: a file or Absent
    pc,        \* the step of a run
    includes,  \* includes not looked at yet
    walk,      \* files to stat, then to write
    entries,   \* what bundleEntry keeps: path and size (Info)
    assets,    \* files of the release directory still to hash
    edits, failures, kills,
    touched,   \* ghost: paths edited while a run was active
    alone      \* ghost: no other run was active with it

locals == <<pc, includes, walk, entries, assets>>
ghosts == <<touched, alone>>
counters == <<edits, failures, kills>>
vars == <<tree, dist, locals, counters, ghosts>>

\* os.CreateTemp makes up a new name: a run needs one at a time.
Temp(p) == p
Names == {archive, checksums} \cup Makes
Empty == [n \in {} |-> 0]

Active(p) == pc[p] \in {"collect", "write", "close", "rename", "sum", "hash", "move"}

\* The function with one more pair.
Put(f, x, v) == [y \in DOMAIN f \cup {x} |-> IF y = x THEN v ELSE f[y]]

IsFile(d) == d.closed \in BOOLEAN /\ d = [closed |-> d.closed, body |-> d.body]
Present(S) == {f \in S : tree[f] # Absent}

TypeOK ==
    /\ tree \in [Paths -> Contents \cup {Absent, Link}]
    /\ dist = [n \in Names |-> dist[n]]
    /\ \A n \in Names : dist[n] # Absent => IsFile(dist[n])
    /\ pc \in [Makes -> {"ready", "collect", "write", "close", "rename", "sum",
                         "hash", "move", "done", "failed", "killed"}]
    /\ includes \in [Makes -> SUBSET Includes]
    /\ walk \in [Makes -> SUBSET Paths]
    /\ assets \in [Makes -> SUBSET Names]
    /\ entries = [p \in Makes |-> entries[p]]
    /\ \A p \in Makes : /\ DOMAIN entries[p] \subseteq Paths
                        /\ entries[p] \in [DOMAIN entries[p] -> Nat]
    /\ edits \in 0..MaxEdits /\ failures \in 0..MaxFailures /\ kills \in 0..MaxKills
    /\ touched \in [Makes -> SUBSET Paths]
    /\ alone \in [Makes -> BOOLEAN]

Init ==
    /\ tree \in [Paths -> Contents \cup {Absent, Link}]
    /\ dist = [n \in Names |-> Absent]
    /\ pc = [p \in Makes |-> "ready"]
    /\ includes = [p \in Makes |-> {}]
    /\ walk = [p \in Makes |-> {}]
    /\ entries = [p \in Makes |-> Empty]
    /\ assets = [p \in Makes |-> {}]
    /\ edits = 0 /\ failures = 0 /\ kills = 0
    /\ touched = [p \in Makes |-> {}]
    /\ alone = [p \in Makes |-> TRUE]

Goto(p, s) == pc' = [pc EXCEPT ![p] = s]
Idle(p) == /\ includes' = [includes EXCEPT ![p] = {}]
           /\ walk' = [walk EXCEPT ![p] = {}]
           /\ entries' = [entries EXCEPT ![p] = Empty]
           /\ assets' = [assets EXCEPT ![p] = {}]

\* The temporary file of a run gets a body; it is closed.
Write(p, b) == dist' = [dist EXCEPT ![Temp(p)] = [closed |-> FALSE, body |-> b]]
Close(p) == dist' = [dist EXCEPT ![Temp(p)] = [closed |-> TRUE, body |-> @.body]]

First(f, S) == f \in S /\ \A g \in S : f <= g

------------------------------------------------------------------------------
(* release bundle *)

Start(p) ==
    /\ pc[p] = "ready"
    /\ Goto(p, "collect")
    /\ includes' = [includes EXCEPT ![p] = Includes]
    /\ alone' = [q \in Makes |-> IF q = p THEN \A r \in Makes : ~Active(r)
                                 ELSE alone[q] /\ ~Active(q)]
    /\ UNCHANGED <<tree, dist, walk, entries, assets, counters, touched>>

\* The state in which the loop over the includes takes the next one, i.
Including(p, i) == pc[p] = "collect" /\ walk[p] = {} /\ i \in includes[p]

\* Mutant: the loop keeps the entries of the last include only.
IncludeFile_Assign(p) == \E i \in Includes, f \in Paths :
    /\ Including(p, i) /\ ~i.dir /\ f \in i.paths
    /\ tree[f] \in Contents
    /\ entries' = [entries EXCEPT ![p] = Put(Empty, f, Size[tree[f]])]
    /\ includes' = [includes EXCEPT ![p] = @ \ {i}]
    /\ UNCHANGED <<tree, dist, pc, walk, assets, counters, ghosts>>

\* Mutant: the entry keeps something else than the size of the stat.
IncludeFile_NoInfo(p) == \E i \in Includes, f \in Paths :
    /\ Including(p, i) /\ ~i.dir /\ f \in i.paths
    /\ tree[f] \in Contents
    /\ entries' = [entries EXCEPT ![p] = Put(@, f, tree[f])]
    /\ includes' = [includes EXCEPT ![p] = @ \ {i}]
    /\ UNCHANGED <<tree, dist, pc, walk, assets, counters, ghosts>>

\* An included file: a link or no file is an error, a seen file is not added.
IncludeFile(p) == \E i \in Includes, f \in Paths :
    /\ Including(p, i) /\ ~i.dir /\ f \in i.paths
    /\ tree[f] \in Contents
    /\ entries' = [entries EXCEPT ![p] =
                     IF f \in DOMAIN @ THEN @ ELSE Put(@, f, Size[tree[f]])]
    /\ includes' = [includes EXCEPT ![p] = @ \ {i}]
    /\ UNCHANGED <<tree, dist, pc, walk, assets, counters, ghosts>>

\* An included directory is read before its files are looked at.
IncludeDir(p) == \E i \in Includes :
    /\ Including(p, i) /\ i.dir
    /\ walk' = [walk EXCEPT ![p] = Present(i.paths)]
    /\ includes' = [includes EXCEPT ![p] = @ \ {i}]
    /\ UNCHANGED <<tree, dist, pc, entries, assets, counters, ghosts>>

\* The walk: a link, or a file that has gone since, is an error.
WalkFile(p) == \E f \in walk[p] :
    /\ pc[p] = "collect" /\ First(f, walk[p])
    /\ tree[f] \in Contents
    /\ entries' = [entries EXCEPT ![p] =
                     IF f \in DOMAIN @ THEN @ ELSE Put(@, f, Size[tree[f]])]
    /\ walk' = [walk EXCEPT ![p] = @ \ {f}]
    /\ UNCHANGED <<tree, dist, pc, includes, assets, counters, ghosts>>

\* No entry is an error (Refused); otherwise the temporary file is created.
CreateBundle(p) ==
    /\ pc[p] = "collect" /\ includes[p] = {} /\ walk[p] = {}
    /\ entries[p] # Empty
    /\ Write(p, Empty)
    /\ walk' = [walk EXCEPT ![p] = DOMAIN entries[p]]
    /\ Goto(p, "write")
    /\ UNCHANGED <<tree, includes, entries, assets, counters, ghosts>>

\* Mutant: nobody asks whether the last body was as long as its header.
Short_Ignored(p) == FALSE

\* The tar writer refuses the next header, and Close, while the last entry is
\* shorter than its header says.
Short(p) ==
    /\ pc[p] \in {"write", "close"}
    /\ \E f \in DOMAIN dist[Temp(p)].body :
          LET e == dist[Temp(p)].body[f] IN Size[e.text] < e.size

\* The header has the size of the stat, the body is what the file holds now; a
\* body that is longer than its header is an error.
WriteEntry(p) == \E f \in walk[p] :
    /\ pc[p] = "write" /\ First(f, walk[p]) /\ ~Short(p)
    /\ tree[f] \in Contents
    /\ Size[tree[f]] <= entries[p][f]
    /\ Write(p, Put(dist[Temp(p)].body, f, [size |-> entries[p][f], text |-> tree[f]]))
    /\ walk' = [walk EXCEPT ![p] = @ \ {f}]
    /\ Goto(p, IF walk[p] = {f} THEN "close" ELSE "write")
    /\ UNCHANGED <<tree, includes, entries, assets, counters, ghosts>>

CloseBundle(p) ==
    /\ pc[p] = "close" /\ ~Short(p)
    /\ Close(p)
    /\ Goto(p, "rename")
    /\ UNCHANGED <<tree, includes, walk, entries, assets, counters, ghosts>>

\* os.Rename over the asset.
Rename(p, n) == dist' = [dist EXCEPT ![n] = dist[Temp(p)], ![Temp(p)] = Absent]

RenameBundle(p) ==
    /\ pc[p] = "rename"
    /\ Rename(p, archive)
    /\ Goto(p, "sum")
    /\ Idle(p)
    /\ UNCHANGED <<tree, counters, ghosts>>

------------------------------------------------------------------------------
(* release checksums, which make runs when the bundle is there *)

\* Mutant: the old checksums.txt is listed too.
Listed_Self == {n \in Names : dist[n] # Absent}

\* Every regular file of the directory but the output; then the temporary file.
\* (No asset is an error; the archive is one.)
Listed == {n \in Names : n # checksums /\ dist[n] # Absent}

ListAssets(p) ==
    /\ pc[p] = "sum" /\ Listed # {}
    /\ assets' = [assets EXCEPT ![p] = Listed]
    /\ Write(p, Empty)
    /\ Goto(p, "hash")
    /\ UNCHANGED <<tree, includes, walk, entries, counters, ghosts>>

\* A listed file that has gone is an error.  The order does not matter.
HashAsset(p) == \E n \in assets[p] :
    /\ pc[p] = "hash" /\ dist[n] # Absent
    /\ Write(p, Put(dist[Temp(p)].body, n, dist[n]))
    /\ assets' = [assets EXCEPT ![p] = @ \ {n}]
    /\ UNCHANGED <<tree, pc, includes, walk, entries, counters, ghosts>>

CloseChecksums(p) ==
    /\ pc[p] = "hash" /\ assets[p] = {}
    /\ Close(p)
    /\ Goto(p, "move")
    /\ UNCHANGED <<tree, includes, walk, entries, assets, counters, ghosts>>

RenameChecksums(p) ==
    /\ pc[p] = "move"
    /\ Rename(p, checksums)
    /\ Goto(p, "done")
    /\ UNCHANGED <<tree, includes, walk, entries, assets, counters, ghosts>>

------------------------------------------------------------------------------
(* Errors, kills and edits *)

\* The errors the code meets by itself.
BadInclude(p) == \E i \in Includes :
    Including(p, i) /\ ~i.dir /\ \E f \in i.paths : tree[f] \in {Absent, Link}
BadFile(p) == \E f \in walk[p] :
    /\ pc[p] = "collect" /\ First(f, walk[p]) /\ tree[f] \in {Absent, Link}
NoFiles(p) ==
    /\ pc[p] = "collect" /\ includes[p] = {} /\ walk[p] = {}
    /\ entries[p] = Empty
BadCopy(p) == \E f \in walk[p] :
    /\ pc[p] = "write" /\ First(f, walk[p])
    /\ tree[f] \in Contents => Size[tree[f]] > entries[p][f]
NoAssets(p) == pc[p] = "sum" /\ Listed = {}
BadAsset(p) == pc[p] = "hash" /\ \E n \in assets[p] : dist[n] = Absent

\* Mutant: a temporary file of a fixed name, opened with O_EXCL.
Refused_Exclusive(p) ==
    \/ BadInclude(p) \/ BadFile(p) \/ NoFiles(p) \/ BadCopy(p) \/ Short(p)
    \/ NoAssets(p) \/ BadAsset(p)
    \/ pc[p] = "sum" /\ \E q \in Makes : dist[Temp(q)] # Absent

Refused(p) == \/ BadInclude(p) \/ BadFile(p) \/ NoFiles(p) \/ BadCopy(p)
              \/ Short(p) \/ NoAssets(p) \/ BadAsset(p)

\* Mutant: no deferred os.Remove.
Remove_Never(p) == UNCHANGED dist

\* Every return of an error goes through the deferred os.Remove.
Remove(p) == dist' = [dist EXCEPT ![Temp(p)] = Absent]

GiveUp(p) ==
    /\ Active(p)
    /\ Remove(p)
    /\ Goto(p, "failed")
    /\ Idle(p)

Fail(p) == Refused(p) /\ GiveUp(p) /\ UNCHANGED <<tree, counters, ghosts>>

\* An error of the file system, anywhere.
Break(p) ==
    /\ failures < MaxFailures /\ GiveUp(p)
    /\ failures' = failures + 1
    /\ UNCHANGED <<tree, edits, kills, ghosts>>

\* main has no signal handler: no deferred function runs.
Kill(p) ==
    /\ kills < MaxKills /\ Active(p)
    /\ kills' = kills + 1
    /\ Goto(p, "killed")
    /\ Idle(p)
    /\ UNCHANGED <<tree, dist, edits, failures, ghosts>>

\* Somebody writes, replaces or removes a file of the working tree.
Edit == \E f \in Paths, c \in Contents \cup {Absent} :
    /\ edits < MaxEdits /\ tree[f] \notin {Link, c}
    /\ tree' = [tree EXCEPT ![f] = c]
    /\ edits' = edits + 1
    /\ touched' = [p \in Makes |-> touched[p] \cup IF Active(p) THEN {f} ELSE {}]
    /\ UNCHANGED <<dist, locals, failures, kills, alone>>

Step(p) ==
    \/ IncludeFile(p) \/ IncludeDir(p) \/ WalkFile(p)
    \/ CreateBundle(p) \/ WriteEntry(p) \/ CloseBundle(p) \/ RenameBundle(p)
    \/ ListAssets(p) \/ HashAsset(p) \/ CloseChecksums(p) \/ RenameChecksums(p)
    \/ Fail(p)

Next == \/ \E p \in Makes : Start(p) \/ Step(p) \/ Break(p) \/ Kill(p)
        \/ Edit

Spec == Init /\ [][Next]_vars

------------------------------------------------------------------------------
(* Properties *)

\* Archives that are closed and whose bodies are as long as their headers say.
Archives ==
    {[closed |-> TRUE, body |-> b] :
       b \in UNION {[S -> {[size |-> Size[c], text |-> c] : c \in Contents}] :
                      S \in {T \in SUBSET Paths : T # {}}}}

\* No file is not an archive.
ASSUME ArchiveAssumption == Absent \notin Archives

IncludedFiles == UNION {i.paths : i \in Includes}

PublishesBundle(p)    == pc[p] = "rename" /\ pc'[p] = "sum"
PublishesChecksums(p) == pc[p] = "move" /\ pc'[p] = "done"

Fate(s) == CASE s = "ready" -> "idle"
             [] s \in {"collect", "write", "close", "rename"} -> "running"
             [] s \in {"sum", "hash", "move"} -> "published"
             [] OTHER -> "ended"

Atomic == INSTANCE AtomicPublish WITH
    Runs <- Makes, None <- Absent,
    asset <- dist[archive], fate <- [p \in Makes |-> Fate(pc[p])]

\* The archive in the release directory is absent or whole, a run replaces it at
\* most once, and runs that fail or are killed, and edits between stat and copy,
\* never show in it (writeBundle: temporary file, tar size check, rename).
PublishesAtomically == Atomic!Spec

\* An edit during the run disturbs only its own file: every other included file
\* is in the published archive with its present content, and no file is there
\* that the tree does not have (collectBundleEntries, writeBundleEntry).
UntouchedFilesExact ==
    [][\A p \in Makes : PublishesBundle(p) =>
          LET body == dist'[archive].body IN
          /\ DOMAIN body \subseteq IncludedFiles
          /\ \A f \in IncludedFiles \ touched[p] :
                IF tree[f] \in Contents
                THEN f \in DOMAIN body /\ body[f].text = tree[f]
                ELSE f \notin DOMAIN body]_vars

\* checksums.txt of a run that was alone is true the moment it appears: it has the
\* archive, and every file it lists is beside it with the listed content, whatever
\* failed and killed runs left (Checksums, checksumEntries).
ChecksumsExact ==
    [][\A p \in Makes : PublishesChecksums(p) /\ alone[p] =>
          LET body == dist'[checksums].body IN
          /\ archive \in DOMAIN body
          /\ \A n \in DOMAIN body : dist'[n] = body[n]]_vars

\* An include that cannot be packed, or nothing to pack.
BadTree ==
    \/ \E f \in IncludedFiles : tree[f] = Link
    \/ \E i \in Includes, f \in Paths : ~i.dir /\ f \in i.paths /\ tree[f] = Absent
    \/ \A f \in IncludedFiles : tree[f] = Absent

\* A run that was alone, saw no edit and met no error of the file system fails
\* only for what is in the tree: what killed runs left does not stop it.
FailsForAReason ==
    [][\A p \in Makes :
          /\ Active(p) /\ pc'[p] = "failed" /\ failures' = failures
          /\ alone[p] /\ touched[p] = {}
          => BadTree]_vars

\* Temporary files belong to runs that are active or were killed (the deferred
\* os.Remove of writeBundle and Checksums, on every path).
NoLitter ==
    \A p \in Makes : dist[Temp(p)] # Absent => Active(p) \/ pc[p] = "killed"

\* docs/releases/0.2.3.md:58 says of checksums.txt: "SHA256 checksums for release
\* assets".  The list of a run that was alone has the assets and nothing else.
ListsOnlyAssets ==
    [][\A p \in Makes : PublishesChecksums(p) /\ alone[p] =>
          DOMAIN dist'[checksums].body \subseteq {archive}]_vars

==============================================================================
