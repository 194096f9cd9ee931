\* Three calls on one key, two faults.
SPECIFICATION Spec
CONSTANTS
  Key = {k1}
  Write = {w1, w2, w3}
  Proc = {p1, p2, p3}
  NoKey = NoKey
  NoWrite = NoWrite
  Faults = 2
SYMMETRY SymAll
INVARIANTS TypeOK NoTornObject AnswersAreTrue
PROPERTY ImplementsStore
