SPECIFICATION Spec
CONSTANTS
  p1 = p1
  p2 = p2
  v1 = v1
  v2 = v2
  k1 = k1
  k2 = k2
  kf = kf
  work = work
  home = home
  nw = nw
  nh = nh
  nb = nb
  Nothing = Nothing
  Vaults <- TwoVaults
  Keys <- TwoKeys
  KeyFiles <- OneKeyFile
  Profiles <- TwoProfiles
  Names <- ThreeNames
  Normalized <- NamedProfiles
  Processes <- TwoProcesses
  Invocations <- ExportedCall
  Expires = TRUE
  Torn = Torn
  Malformed = Malformed
  Empty = Empty
INVARIANT ShellWins
