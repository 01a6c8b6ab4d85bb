\* docs/releases/0.2.3.md: checksums.txt lists the release assets.
SPECIFICATION Spec
CONSTANTS
    c1 = c1
    c2 = c2
    c3 = c3
    Paths = {1, 2}
    Includes <- MCIncludes
    Contents = {c1, c2, c3}
    Size <- MCSize
    Makes = {m1, m2}
    archive = archive
    checksums = checksums
    Absent = Absent
    Link = Link
    MaxEdits = 0
    MaxFailures = 0
    MaxKills = 1
PROPERTIES ListsOnlyAssets
CHECK_DEADLOCK FALSE
