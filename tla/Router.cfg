CONSTANTS
  p2p = p2p  esplora = esplora  electrum = electrum
  t1 = t1  t2 = t2
  None = None
  Providers = {p2p, esplora, electrum}
  Callers = {t1, t2}
  Light = {p2p}
  Http = {esplora}
  Wrong = {esplora}
  Holders = {esplora}
  Index <- MCIndex
  Breaker = 2
  Width = 2
  Requests <- MCRequests
  Flaky = {p2p, esplora}
  MaxMoves = 2
SPECIFICATION Spec
PROPERTIES
    Implements
    StrongestFirst
    Recovers
CHECK_DEADLOCK FALSE
