--------------------------- MODULE MCReleaseBundle ---------------------------
EXTENDS ReleaseBundle, TLC

CONSTANTS c1, c2, c3

\* A file that is included by name and again by its directory, and a directory.
MCIncludes == {[dir |-> FALSE, paths |-> {1}], [dir |-> TRUE, paths |-> {1, 2}]}

\* Two contents of one size, and a longer one.
MCSize == [c \in Contents |-> IF c = c3 THEN 2 ELSE 1]

\* Runs are alike, and so are contents of one size.
MCSymmetry == Permutations(Makes) \cup Permutations({c1, c2})
==============================================================================
