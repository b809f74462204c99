SPECIFICATION UnixSpec
CONSTANTS
  Threads = {t1, t2}
  region = region
  own = own
  big1 = big1
  big2 = big2
  Blocks = {region, own, big1, big2}
  Size <- MCSize
  Forced = {own}
  Limits = {4, 8}
  UsizeMax = 23
  Regions = {region, own}
  Closures = {c}
  ClosureSize = 1
  PageSize = 2
  Pages = 6
  MayFail = {region}
  HugePage <- MCHugePage
  Nobody = Nobody
INVARIANTS Accounted WithinLimit MappingsExact KeyReady
PROPERTIES GrantsWithinLimit SpinEnds
CHECK_DEADLOCK FALSE
