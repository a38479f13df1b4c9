SPECIFICATION ConnectorsFairSpec
CONSTANTS
  Procs = {p1, p2}
  Tasks = {p1, p2}
  Clients = {1, 2, 3}
  Engines = {1, 2, 3, 4}
  Retries = 1
  PoolSize = 1
  Attempts = 2
  NoClient = NoClient
  NoProc = NoProc
  NoEngine = NoEngine
INVARIANTS ConnectorsInv CachedIsGood KeptWhileGood FactoryIsEngine
PROPERTIES ConnectedEngineStays ConnectingEnds OutageLeavesNoTrace
