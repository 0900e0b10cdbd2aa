SPECIFICATION Spec
CONSTANTS
  o1 = o1
  o2 = o2
  p1 = p1
  p2 = p2
  p3 = p3
  p4 = p4
  strict = strict
  plain = plain
  None = None
  Operators <- TwoOperators
  Passwords <- ThreePasswords
  Initial <- p1
  Policies <- TwoPolicies
  CommandLine <- OnePolicy
  Default <- plain
  PolicyOf <- SomeAlwaysPlain
  Observed <- SomeAlwaysStrict
  NotesEdits = TRUE
SYMMETRY Alike
INVARIANTS TypeOK LostOnlyByRace
PROPERTIES PromotionIsComplete ImplementsChange
