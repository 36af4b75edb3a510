CONSTANTS
  Threads = {t1, t2}
  NoPath = NoPath
  NoFactory = NoFactory
  MaxFactories = 6
  Ids <- MCIds
  DirEntries <- MCDirEntries
  SoEntries <- MCSoEntries
  Loadable <- MCLoadable
  Creatable <- MCCreatable
  QueryOK <- MCQueryOK
  Supported <- MCSupported
SPECIFICATION Spec
CONSTRAINT FactoryBound




INVARIANT HeldFactoryAlive
