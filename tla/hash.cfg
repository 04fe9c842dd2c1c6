\* Four keys; the calls may come in any order, allocations may fail.
CONSTANTS
  k1 = k1
  k2 = k2
  k3 = k3
  k4 = k4
  Keys    = {k1, k2, k3, k4}
  Data    = {x, y}
  NoData  = nodata
  HashVal <- MCHashVal
  Primes  <- MCPrimes
  MayFail = TRUE
SPECIFICATION FairSpec
INVARIANTS
  ChainsSound
PROPERTIES
  ImplementsMap
  CallsReturn
