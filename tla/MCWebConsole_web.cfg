SPECIFICATION Spec
CONSTANTS
  r1 = r1
  r2 = r2
  r3 = r3
  n1 = n1
  n2 = n2
  a1 = a1
  a2 = a2
  g = g
  v1 = v1
  v2 = v2
  k1 = k1
  k2 = k2
  kf = kf
  pkf = pkf
  Nothing = Nothing
  Own = Own
  Unlisted = Unlisted
  Vaults <- TwoVaults
  Keys <- TwoKeys
  KeyFiles <- TwoKeyFiles
  Profiles <- NoNames
  Names <- NoNames
  Normalized <- NoNormalized
  Requests <- ThreeRequests
  Calls <- SomeCalls
  Repos <- TwoRepos
  Aliases <- TwoAliases
  Grants <- OneGrant
  Drafts <- OneDraft
  Masters <- TwoMasters
  Base <- BaseSettings
  Compat <- CompatSettings
INVARIANTS TypeOK EnvironmentRestored OwnCredentials LatestKept NoGrantInvented 
PROPERTIES RequestsEnd
