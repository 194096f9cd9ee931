\* Two calls, uploads of either kind or downloads, three objects, two edits, two faults.
SPECIFICATION Spec
CONSTANTS
  Object = {o1, o2, o3}
  Key = {k1, k2}
  File = {f1, f2}
  Upload = {p1, p2}
  NoObject = NoObject
  NoKey = NoKey
  NoFile = NoFile
  MaxRevision = 3
  Faults = 2
SYMMETRY SymAll
VIEW LiveState
INVARIANTS ReferencedIsStored VersionsInOrder AnsweredIsKept DownloadsFind
PROPERTY RefusedLeavesNothing
