CONSTANTS
  Threads = {t1, t2}
  NoPath = NoPath
  NoFactory = NoFactory
  MaxFactories = 6
  Ids <- MCIds
  DirEntries <- MCDirEntries
  SoEntries <- MCSoEntries
  Loadable <- MCLoadable
  Creatable <- MCCreatable
  QueryOK <- MCQueryOK
  Supported <- MCSupported
SPECIFICATION Spec
CONSTRAINT FactoryBound
INVARIANT TypeOK
INVARIANT HeapConsistent
INVARIANT CacheSound
INVARIANT HandOutConsistent
INVARIANT LibraryOpenedOnce
\* ~FactoryLoader ends the loader; once every caller has released its
\* factory nothing more can happen.
CHECK_DEADLOCK FALSE
