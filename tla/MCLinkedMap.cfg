CONSTANTS
  Keys <- MCKeys
  Values <- MCValues
  Links <- MCLinks
  Nil = 0
SPECIFICATION Spec
INVARIANTS TypeOK Doubly GetAgrees
PROPERTY IsDictionary
