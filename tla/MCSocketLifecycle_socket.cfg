SPECIFICATION Spec
CONSTANTS
  d1 = d1
  d2 = d2
  c1 = c1
  c2 = c2
  Stale = Stale
  Nothing = Nothing
  Daemons <- TwoDaemons
  Commands <- TwoCommands
  Calls <- TwoCalls
INVARIANTS TypeOK UnreachableOnlyByOverlap FailsOnlyByOverlap LockReachesAll TracebackOnlyWhenDisturbed
PROPERTIES CommandsEnd
