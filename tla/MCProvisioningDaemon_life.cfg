SPECIFICATION FairSpec
CONSTANTS
  c1 = c1
  c2 = c2
  c3 = c3
  r1 = r1
  r2 = r2
  m = m
  s = s
  p = p
  good = good
  bad = bad
  None = None
  Conns <- TwoConns
  Repos <- Callers
  DBs <- Vaults
  Master <- m
  Paths <- EntryPaths
  Passwords <- Keys
  MasterKey <- good
  Requests <- AllRequests
  Files <- AllFiles
INVARIANTS TypeOK OnlyMasterKeyHeld SettledPolicy
PROPERTIES AllAnswered
