\* Two forms of one profile; three contents, so that two users may type different things.
SPECIFICATION Spec
CONSTANTS
  FirstFields = first
  Fields = {first, second, third}
  MaxRevision = 4
INVARIANT UnsavedEditsOverwriteNothing
CHECK_DEADLOCK FALSE
