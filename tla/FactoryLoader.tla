--------------------------- MODULE FactoryLoader ---------------------------
(***************************************************************************)
(* The CAS plugin factory loader, src/cas/aidl/default/FactoryLoader.h.    *)
(*                                                                         *)
(* A FactoryLoader<T> scans the vendor plugin directory for shared         *)
(* libraries, opens them, calls their exported create function to get a    *)
(* factory object, and caches which library serves which CA system id.     *)
(* Both public operations run their whole body under mMapLock, so each is  *)
(* one atomic action here.  The loader owns exactly one factory object at  *)
(* a time (mFactory); the one it hands to a caller of                      *)
(* findFactoryForScheme is that same object, which the next call deletes.  *)
(*                                                                         *)
(* The heap of factory objects is the sequence 'created': one record per  *)
(* allocation, with the library it came from and how often it was freed.   *)
(* A library object is identified by its path: the map keeps the first     *)
(* valid SharedLibrary opened for a path for the lifetime of the loader.   *)
(***************************************************************************)
EXTENDS Naturals, Sequences, SequencesExt

CONSTANTS
  Threads,       \* binder threads of the service that owns the loader
  Ids,           \* CA system ids a caller may ask for
  DirEntries,    \* names returned by readdir on the plugin directory
  SoEntries,     \* the entries whose path ends in ".so"
  Loadable,      \* entries for which SharedLibrary(path) is valid (dlopen)
  Creatable,     \* entries whose library exports the create function and
                 \* whose createFactory() returns a factory
  QueryOK,       \* entries whose factory's queryPlugins() returns OK
  Supported,     \* Supported[e]: ids for which isSystemIdSupported is true
  NoPath,        \* model value: no library / no cache entry
  NoFactory,     \* model value: a NULL factory pointer
  MaxFactories   \* bound on the number of factory allocations explored

ASSUME SoEntries \subseteq DirEntries
ASSUME Creatable \subseteq Loadable /\ Loadable \subseteq SoEntries
ASSUME QueryOK \subseteq Creatable
ASSUME Supported \in [DirEntries -> SUBSET Ids]
ASSUME MaxFactories \in Nat

VARIABLES
  cache,      \* mCASystemIdToLibraryPathMap
  libraries,  \* mLibraryPathToOpenLibraryMap: "absent", "null" or "open"
  mFactory,   \* index into 'created', or NoFactory
  mLibrary,   \* the path of the SharedLibrary mLibrary points to, or NoPath
  created,    \* every factory allocated: [lib |-> path, frees |-> count]
  held,       \* what each caller got back from findFactoryForScheme
  opened,     \* history: per path, the SharedLibrary objects whose dlopen
              \* succeeded
  destroyed   \* ~FactoryLoader has run

loader == <<libraries, mFactory, mLibrary, created, opened>>
vars == <<cache, libraries, mFactory, mLibrary, created, held, opened, destroyed>>

\* Every order readdir may return the directory entries in.
DirOrders == SetToSeqs(DirEntries)

Nothing == [factory |-> NoFactory, library |-> NoPath, id |-> NoPath]

\* The loader state that the private helpers read and write, as one record.
State == [libraries |-> libraries, mFactory |-> mFactory,
          mLibrary |-> mLibrary, created |-> created, opened |-> opened]

SetState(s) ==
  /\ libraries' = s.libraries
  /\ mFactory' = s.mFactory
  /\ mLibrary' = s.mLibrary
  /\ created' = s.created
  /\ opened' = s.opened

-----------------------------------------------------------------------------
(* The private helpers, each a function from a loader state to a result.  *)

\* closeFactory(): delete mFactory; mFactory = NULL; mLibrary.reset().
closeFactory(s) ==
  [s EXCEPT !.created = IF s.mFactory = NoFactory THEN @
                        ELSE [@ EXCEPT ![s.mFactory].frees = @ + 1],
            !.mFactory = NoFactory,
            !.mLibrary = NoPath]

\* Fault variant of openFactory that never stores the opened library in
\* mLibraryPathToOpenLibraryMap (no replaceValueAt).
openFactoryNoStore(s, p) ==
  LET s1 == IF s.libraries[p] = "absent"
            THEN [s EXCEPT !.libraries[p] = "null"]
            ELSE [s EXCEPT !.mLibrary = IF s.libraries[p] = "open"
                                        THEN p ELSE NoPath]
      made == s1.mLibrary = NoPath
      s2 == IF made
            THEN [s1 EXCEPT !.mLibrary = p,
                            !.opened[p] = IF p \in Loadable THEN @ + 1 ELSE @]
            ELSE s1
      lib == s2.mLibrary
  IN  IF made /\ p \notin Loadable THEN [st |-> s2, ok |-> FALSE]
      ELSE IF lib \notin Creatable THEN [st |-> s2, ok |-> FALSE]
      ELSE [st |-> [s2 EXCEPT
                      !.created = Append(@, [lib |-> lib, frees |-> 0]),
                      !.mFactory = Len(s2.created) + 1],
            ok |-> TRUE]

\* openFactory(path): take the library from the map, or add a NULL entry;
\* if there is none, construct a SharedLibrary (an invalid one is kept in
\* mLibrary but not stored in the map); then look up and call the create
\* function of the library mLibrary points to.
openFactory(s, p) ==
  LET s1 == IF s.libraries[p] = "absent"
            THEN [s EXCEPT !.libraries[p] = "null"]
            ELSE [s EXCEPT !.mLibrary = IF s.libraries[p] = "open"
                                        THEN p ELSE NoPath]
      made == s1.mLibrary = NoPath
      s2 == IF made
            THEN [s1 EXCEPT !.mLibrary = p,
                            !.libraries[p] = IF p \in Loadable THEN "open"
                                             ELSE @,
                            !.opened[p] = IF p \in Loadable THEN @ + 1 ELSE @]
            ELSE s1
      lib == s2.mLibrary
  IN  IF made /\ p \notin Loadable THEN [st |-> s2, ok |-> FALSE]
      ELSE IF lib \notin Creatable THEN [st |-> s2, ok |-> FALSE]
      ELSE [st |-> [s2 EXCEPT
                      !.created = Append(@, [lib |-> lib, frees |-> 0]),
                      !.mFactory = Len(s2.created) + 1],
            ok |-> TRUE]

\* Fault variants of loadFactoryForSchemeFromPath: one that does not close
\* the previous factory first, one that skips isSystemIdSupported.
loadWithoutClose(s, p, id) ==
  LET o == openFactory(s, p)
  IN  IF o.ok /\ id \in Supported[o.st.created[o.st.mFactory].lib]
      THEN o
      ELSE [st |-> closeFactory(o.st), ok |-> FALSE]

loadWithoutIdCheck(s, p, id) ==
  LET o == openFactory(closeFactory(s), p)
  IN  IF o.ok THEN o ELSE [st |-> closeFactory(o.st), ok |-> FALSE]

\* loadFactoryForSchemeFromPath(path, id).
loadFactoryForSchemeFromPath(s, p, id) ==
  LET o == openFactory(closeFactory(s), p)
  IN  IF o.ok /\ id \in Supported[o.st.created[o.st.mFactory].lib]
      THEN o
      ELSE [st |-> closeFactory(o.st), ok |-> FALSE]

\* queryPluginsFromPath(path): on success the factory stays in mFactory.
queryPluginsFromPath(s, p) ==
  LET o == openFactory(closeFactory(s), p)
  IN  IF o.ok /\ o.st.created[o.st.mFactory].lib \in QueryOK
      THEN o.st
      ELSE closeFactory(o.st)

\* The readdir loop of findFactoryForScheme: the first ".so" entry, in
\* directory order, whose factory supports the id wins.
RECURSIVE ScanForScheme(_, _, _)
ScanForScheme(s, order, id) ==
  IF order = <<>> THEN [st |-> s, ok |-> FALSE, path |-> NoPath]
  ELSE LET p == Head(order)
           r == loadFactoryForSchemeFromPath(s, p, id)
       IN  IF p \in SoEntries /\ r.ok
           THEN [st |-> r.st, ok |-> TRUE, path |-> p]
           ELSE ScanForScheme(IF p \in SoEntries THEN r.st ELSE s,
                              Tail(order), id)

\* The readdir loop of enumeratePlugins.
RECURSIVE ScanForQuery(_, _)
ScanForQuery(s, order) ==
  IF order = <<>> THEN s
  ELSE ScanForQuery(IF Head(order) \in SoEntries
                    THEN queryPluginsFromPath(s, Head(order)) ELSE s,
                    Tail(order))

-----------------------------------------------------------------------------
(* The public operations, and the callers that use their results.         *)

Init ==
  /\ cache = [i \in Ids |-> NoPath]
  /\ libraries = [e \in DirEntries |-> "absent"]
  /\ mFactory = NoFactory
  /\ mLibrary = NoPath
  /\ created = <<>>
  /\ held = [t \in Threads |-> Nothing]
  /\ opened = [e \in DirEntries |-> 0]
  /\ destroyed = FALSE

\* Fault variant of HandOut that does not reset the out parameters when
\* the load fails.
HandOutWithoutReset(t, r, id) ==
  held' = [held EXCEPT ![t] = [factory |-> r.st.mFactory,
                               library |-> r.st.mLibrary, id |-> id]]

\* The caller gets the library and factory of a successful load; the out
\* parameters are reset first, so a failed call leaves them NULL.
HandOut(t, r, id) ==
  held' = [held EXCEPT ![t] = IF r.ok
                              THEN [factory |-> r.st.mFactory,
                                    library |-> r.st.mLibrary, id |-> id]
                              ELSE Nothing]

\* Fault variant of findFactoryForScheme that never consults the cache.
findWithoutCache(t, id) ==
  /\ held[t] = Nothing
  /\ \/ UNCHANGED vars
     \/ \E order \in DirOrders :
          LET r == ScanForScheme(State, order, id)
          IN  /\ SetState(r.st)
              /\ HandOut(t, r, id)
              /\ cache' = IF r.ok THEN [cache EXCEPT ![id] = r.path] ELSE cache

\* findFactoryForScheme(id): a cached path is tried alone; otherwise the
\* directory is scanned (readdir order is unspecified), and the winning
\* path is cached.  opendir may fail, which returns false.
findFactoryForScheme(t, id) ==
  /\ held[t] = Nothing
  /\ IF cache[id] # NoPath
     THEN LET r == loadFactoryForSchemeFromPath(State, cache[id], id)
          IN  /\ SetState(r.st)
              /\ HandOut(t, r, id)
              /\ UNCHANGED cache
     ELSE \/ UNCHANGED vars
          \/ \E order \in DirOrders :
               LET r == ScanForScheme(State, order, id)
               IN  /\ SetState(r.st)
                   /\ HandOut(t, r, id)
                   /\ cache' = IF r.ok THEN [cache EXCEPT ![id] = r.path]
                               ELSE cache

\* enumeratePlugins(): opendir may fail; otherwise every ".so" entry is
\* opened and queried.  The descriptors go to the caller only.
enumeratePlugins(t) ==
  /\ held[t] = Nothing
  /\ \/ UNCHANGED vars
     \/ \E order \in DirOrders :
          /\ SetState(ScanForQuery(State, order))
          /\ UNCHANGED <<cache, held>>

\* The caller is done with the factory (it created its plugin) and drops
\* its reference to the library.
Release(t) ==
  /\ held[t] # Nothing
  /\ held' = [held EXCEPT ![t] = Nothing]
  /\ UNCHANGED <<cache, loader>>

\* ~FactoryLoader(): the service that owns the loader goes away once no
\* binder call is inside it; closeFactory deletes the factory it owns.
\* Callers may still hold that factory.
Destroy ==
  /\ ~destroyed
  /\ SetState(closeFactory(State))
  /\ destroyed' = TRUE
  /\ UNCHANGED <<cache, held>>

Next ==
  \/ /\ ~destroyed
     /\ \E t \in Threads :
          \/ \E id \in Ids : findFactoryForScheme(t, id)
          \/ enumeratePlugins(t)
     /\ UNCHANGED destroyed
  \/ \E t \in Threads : Release(t) /\ UNCHANGED destroyed
  \/ Destroy

Spec == Init /\ [][Next]_vars

\* Bounds the number of factory allocations explored.
FactoryBound == Len(created) <= MaxFactories

-----------------------------------------------------------------------------
(* Properties.                                                            *)

Held == {t \in Threads : held[t] # Nothing}

TypeOK ==
  /\ cache \in [Ids -> SoEntries \cup {NoPath}]
  /\ libraries \in [DirEntries -> {"absent", "null", "open"}]
  /\ mFactory \in DOMAIN created \cup {NoFactory}
  /\ mLibrary \in DirEntries \cup {NoPath}
  /\ created \in Seq([lib : Creatable, frees : Nat])
  /\ opened \in [DirEntries -> Nat]
  /\ destroyed \in BOOLEAN
  /\ held \in [Threads -> {Nothing} \cup
                 [factory : DOMAIN created, library : Creatable, id : Ids]]

\* closeFactory/openFactory ownership of mFactory: every factory the loader
\* ever allocated has been deleted exactly once, except the one mFactory
\* points to, which is still alive (no leak, no double delete).
HeapConsistent ==
  \A i \in DOMAIN created :
    created[i].frees = IF i = mFactory THEN 0 ELSE 1

\* The cache of findFactoryForScheme only names a ".so" whose factory
\* supports the id it is cached for.
CacheSound ==
  \A id \in Ids :
    cache[id] # NoPath => cache[id] \in Creatable /\ id \in Supported[cache[id]]

\* A caller holding the result of findFactoryForScheme(id) holds a factory
\* made by the library it was given, that library serves id, and it is the
\* library the cache names for id: every caller of the same id is served by
\* the same plugin, whatever order readdir returns.
HandOutConsistent ==
  \A t \in Held :
    /\ created[held[t].factory].lib = held[t].library
    /\ held[t].id \in Supported[held[t].library]
    /\ cache[held[t].id] = held[t].library

\* openFactory keeps every library it opens in mLibraryPathToOpenLibraryMap
\* and never unloads it, so the open libraries must stay bounded by the
\* plugin files: over the loader's whole life, through every cache hit,
\* rescan, enumeration, failed load and the destructor, each path is
\* dlopen-ed successfully at most once.
LibraryOpenedOnce == \A e \in DirEntries : opened[e] <= 1

\* The factory pointer findFactoryForScheme hands to a caller stays valid
\* while the caller uses it: it is not deleted by the loader meanwhile.
HeldFactoryAlive ==
  \A t \in Held : created[held[t].factory].frees = 0

=============================================================================
