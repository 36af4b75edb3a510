------------------------- MODULE MC_FactoryLoader -------------------------
(***************************************************************************)
(* A plugin directory for the CAS factory loader:                          *)
(*   widevine.so  loads, creates a factory, serves id 1, queryPlugins OK;  *)
(*   clearkey.so  loads, creates a factory, serves ids 1 and 2, but its    *)
(*                queryPlugins fails;                                      *)
(*   stub.so      loads but exports no create function;                    *)
(*   broken.so    fails dlopen;                                            *)
(*   README       is not a ".so" and is skipped.                           *)
(* Id 1 is served by two plugins, so which one wins depends on readdir     *)
(* order; id 3 is served by none.                                          *)
(***************************************************************************)
EXTENDS FactoryLoader

MCDirEntries == {"widevine.so", "clearkey.so", "stub.so", "broken.so", "README"}
MCSoEntries == MCDirEntries \ {"README"}
MCLoadable == {"widevine.so", "clearkey.so", "stub.so"}
MCCreatable == {"widevine.so", "clearkey.so"}
MCQueryOK == {"widevine.so"}
MCIds == {1, 2, 3}
MCSupported ==
  [e \in MCDirEntries |->
     CASE e = "widevine.so" -> {1}
       [] e = "clearkey.so" -> {1, 2}
       [] OTHER -> {}]
=============================================================================
