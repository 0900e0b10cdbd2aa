SPECIFICATION Spec
CONSTANTS
  o1 = o1
  o2 = o2
  p1 = p1
  p2 = p2
  p3 = p3
  p4 = p4
  strict = strict
  plain = plain
  None = None
  Operators <- OneOperator
  Passwords <- FourPasswords
  Initial <- p1
  Policies <- TwoPolicies
  CommandLine <- TwoPolicies
  Default <- plain
  PolicyOf <- Generated
  Observed <- AlwaysPlain
  NotesEdits = FALSE
INVARIANTS NotesReadBack
