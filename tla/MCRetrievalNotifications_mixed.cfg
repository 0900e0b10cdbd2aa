\* Two daily records, two counted retrievals and one without a throttle, two
\* summary jobs, both channels.
SPECIFICATION Spec
CONSTANTS
  d1 = d1
  d2 = d2
  c1 = c1
  c2 = c2
  c3 = c3
  a1 = a1
  s1 = s1
  s2 = s2
  None = None
  Cut = Cut
  Retrievals = {d1, d2, c1, c2, a1}
  Daily = {d1, d2}
  Summaries = {s1, s2}
  Channels = {"email", "signal"}
  EveryN <- OneInTwo
SYMMETRY Alike
INVARIANTS TypeOK NothingLostUnraced  FiresOnEveryNth
PROPERTIES ClearedAfterDelivery
CHECK_DEADLOCK FALSE
