SPECIFICATION Spec
CONSTANTS
  bank = bank
  mail = mail
  s1 = s1
  s2 = s2
  none = none
  plain = plain
  extra = extra
  Nothing = Nothing
  Cut = Cut
  Malformed = Malformed
  Accounts <- TwoAccounts
  Rank <- Alphabetical
  Syncs <- TwoSyncs
  Intervals = {1, 3}
  Registries <- FirstRegistries
  Window = 1
  Skews <- NoSkew
  Others <- SomeOthers
  Kept <- KeptOthers
  Fresh = none
  MaxChanges = 2
INVARIANTS TypeOK ListedExactlyDue RestKept
PROPERTIES BecomesExact ImplementsTodoFile
