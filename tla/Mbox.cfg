SPECIFICATION FairSpec
CONSTANTS
  Poster = {p1, p2}
  Blocking = {p1}
  Fetcher = {f1, f2}
  Msg = {m1, m2}
  NULL = NULL
  Size = 2
  TMAX_MAXSEM = 2
INVARIANTS
  TokensExact
PROPERTIES
  ChannelSpec
  
