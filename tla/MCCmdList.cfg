SPECIFICATION Spec
CONSTANTS
  Entry <- Entries
  Cell = {c1, c2, c3}
  NULL = NULL
INVARIANT ListIsSound
PROPERTY ImplementsQueue
