\* Two runs that overlap, fail and are killed, and edits between stat and copy.
SPECIFICATION Spec
CONSTANTS
    c1 = c1
    c2 = c2
    c3 = c3
    Paths = {1, 2}
    Includes <- MCIncludes
    Contents = {c1, c2, c3}
    Size <- MCSize
    Makes = {m1, m2}
    archive = archive
    checksums = checksums
    Absent = Absent
    Link = Link
    MaxEdits = 2
    MaxFailures = 1
    MaxKills = 1
INVARIANTS TypeOK NoLitter
PROPERTIES PublishesAtomically UntouchedFilesExact ChecksumsExact FailsForAReason
SYMMETRY MCSymmetry
CHECK_DEADLOCK FALSE
