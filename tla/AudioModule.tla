---------------------------- MODULE AudioModule -----------------------------
(***************************************************************************)
(* The resources of an audio HAL module and the VTS helpers that create    *)
(* and release them (src/audio/aidl/vts/VtsHalAudioCoreTargetTest.cpp).    *)
(*                                                                         *)
(* The module's state is that of Module.h: the debug flags, the ports      *)
(* created by connectExternalDevice, the port configs, the streams and the *)
(* patches.  Module.cpp is not in the repository: each IModule operation   *)
(* is the contract the VTS asserts of it (which call fails with which      *)
(* status in which state).  Closing a stream is Stream.cpp.                *)
(*                                                                         *)
(* The test side is one gtest body: a stack of live 'With*' helper objects *)
(* in scope.  A step constructs a helper and runs its SetUp, or ends the   *)
(* innermost scope, which runs the helper's destructor.  An ASSERT that    *)
(* fails returns from the body, and every helper still in scope is        *)
(* destroyed, innermost first.  Any nesting of the helpers over any ports  *)
(* is explored, which covers the ways the tests compose them.              *)
(***************************************************************************)
EXTENDS Integers, Sequences, FiniteSets
LOCAL INSTANCE SequencesExt

CONSTANTS
  MixPorts,            \* mix ports of the module configuration
  InputMixPorts,       \* the mix ports of input streams
  DevicePorts,         \* permanently attached device ports
  ExtPorts,            \* external device port templates
  ConnIds,             \* ids connectExternalDevice may give a connected port
  Routes,              \* <<source port, sink port>> pairs that have a route
  MaxOpenStreamCount,  \* maxOpenStreamCount of each mix port (0: no limit)
  CfgIds, StreamIds,  \* ids the module may hand out
  PatchIds,      \* positive patch ids the module may hand out; 0 is "new"
  NoId, NoPatch,       \* model values: no object
  LONG_MAX,            \* model value: std::numeric_limits<long>::max()
  MaxScope             \* bound on the number of helpers in scope at once

ASSUME InputMixPorts \subseteq MixPorts
ASSUME MaxOpenStreamCount \in [MixPorts -> Nat]
ASSUME MaxScope \in Nat
ASSUME PatchIds \subseteq Nat \ {0}

VARIABLES
  mDebug,                 \* mDebug.simulateDeviceConnections
  mConnectedDevicePorts,  \* connected port id -> its template, or NoId
  configs,                \* port config id -> its port, or NoId
  streams,                \* stream object -> [cfg, mIsClosed]; cfg NoId: none
  mPatches,               \* patch id -> [src, sink] config ids, or NoPatch
  phase,       \* "setup", "body", "unwind": where the gtest fixture is
  scope,       \* the With* helpers in scope, outermost first
  heldStream,  \* a stream pointer the body keeps past its WithStream
  failed,          \* this test has recorded a failure
  teardownFailed   \* an EXPECT_IS_OK of a destructor or TearDown failed

module == <<mDebug, mConnectedDevicePorts, configs, streams, mPatches>>
test == <<phase, scope, heldStream, failed, teardownFailed>>
vars == <<module, test>>

\* AudioCoreModuleBase::kDefaultBufferSizeFrames and the sizes of
\* OpenInvalidBufferSize.
kDefaultBufferSizeFrames == 256
BufferSizes == {-1, 0, 1, LONG_MAX, kDefaultBufferSizeFrames}

\* Module::kMinimumStreamBufferSizeFrames.
kMinimumStreamBufferSizeFrames == 16

FreeStream == [cfg |-> NoId, mIsClosed |-> TRUE]
NoCfg == [id |-> NoId, owns |-> FALSE]

-----------------------------------------------------------------------------
(* The module, as a record, and its operations.  Each returns the new      *)
(* module state and the status of the binder call.                        *)

Mod == [debug |-> mDebug, conn |-> mConnectedDevicePorts, cfg |-> configs,
        streams |-> streams, patches |-> mPatches]

SetMod(m) ==
  /\ mDebug' = m.debug
  /\ mConnectedDevicePorts' = m.conn
  /\ configs' = m.cfg
  /\ streams' = m.streams
  /\ mPatches' = m.patches

Free(f, none) == {i \in DOMAIN f : f[i] = none}
AnyOf(S) == CHOOSE i \in S : TRUE

Connected(m) == {c \in ConnIds : m.conn[c] # NoId}
PortExists(m, p) == p \in MixPorts \cup DevicePorts \cup Connected(m)
\* A connected port has the routes of its template.
RoutePort(m, p) == IF p \in ConnIds THEN m.conn[p] ELSE p
OpenStreamsOn(m, ids) ==
  {s \in StreamIds : m.streams[s].cfg \in ids /\ ~m.streams[s].mIsClosed}
InPatch(m, i) ==
  \E p \in PatchIds : m.patches[p] # NoPatch /\ i \in {m.patches[p].src, m.patches[p].sink}

Res(m, status, id) == [st |-> m, status |-> status, id |-> id]
Ok(m) == Res(m, "OK", NoId)
Err(m, e) == Res(m, e, NoId)

setModuleDebug(m, simulate) ==
  IF m.debug /\ ~simulate /\ Connected(m) # {}
  THEN Err(m, "ILLEGAL_STATE")
  ELSE Ok([m EXCEPT !.debug = simulate])

connectExternalDevice(m, t) ==
  LET c == AnyOf(Free(m.conn, NoId))
  IN  IF ~m.debug THEN Err(m, "ILLEGAL_STATE")
      ELSE Res([m EXCEPT !.conn[c] = t], "OK", c)

disconnectExternalDevice(m, c) ==
  IF c \notin Connected(m) THEN Err(m, "ILLEGAL_ARGUMENT")
  ELSE IF \E i \in CfgIds : m.cfg[i] = c THEN Err(m, "ILLEGAL_STATE")
  ELSE Ok([m EXCEPT !.conn[c] = NoId])

\* setAudioPortConfig for a config with id 0; 'applies' is the HAL's
\* choice to apply it or only to suggest one.
setAudioPortConfig(m, p, applies) ==
  LET i == AnyOf(Free(m.cfg, NoId))
  IN  IF ~PortExists(m, p)
      THEN [st |-> m, status |-> "ILLEGAL_ARGUMENT", applied |-> FALSE, id |-> NoId]
      ELSE IF ~applies
      THEN [st |-> m, status |-> "OK", applied |-> FALSE, id |-> NoId]
      ELSE [st |-> [m EXCEPT !.cfg[i] = p], status |-> "OK", applied |-> TRUE, id |-> i]

resetAudioPortConfig(m, i) ==
  IF i = NoId \/ m.cfg[i] = NoId THEN Err(m, "ILLEGAL_ARGUMENT")
  ELSE IF OpenStreamsOn(m, {i}) # {} \/ InPatch(m, i) THEN Err(m, "ILLEGAL_STATE")
  ELSE Ok([m EXCEPT !.cfg[i] = NoId])

\* Mutant: the stream records the port id in place of the port config id.
openStreamOnPortId(m, i, isInput, bufferSizeFrames) ==
  LET p == m.cfg[i]
      s == AnyOf(Free(m.streams, FreeStream))
  IN  IF i = NoId \/ p = NoId \/ p \notin MixPorts \/ (p \in InputMixPorts) # isInput
      THEN Err(m, "ILLEGAL_ARGUMENT")
      ELSE IF bufferSizeFrames = LONG_MAX
              \/ bufferSizeFrames < kMinimumStreamBufferSizeFrames
      THEN Err(m, "ILLEGAL_ARGUMENT")
      ELSE IF OpenStreamsOn(m, {i}) # {} THEN Err(m, "ILLEGAL_STATE")
      ELSE IF MaxOpenStreamCount[p] > 0 /\
              Cardinality(OpenStreamsOn(m, {j \in CfgIds : m.cfg[j] = p}))
                >= MaxOpenStreamCount[p]
      THEN Err(m, "ILLEGAL_STATE")
      ELSE Res([m EXCEPT !.streams[s] = [cfg |-> p, mIsClosed |-> FALSE]], "OK", s)

\* openInputStream / openOutputStream.
openStream(m, i, isInput, bufferSizeFrames) ==
  LET p == m.cfg[i]
      s == AnyOf(Free(m.streams, FreeStream))
  IN  IF i = NoId \/ p = NoId \/ p \notin MixPorts \/ (p \in InputMixPorts) # isInput
      THEN Err(m, "ILLEGAL_ARGUMENT")
      ELSE IF bufferSizeFrames = LONG_MAX
              \/ bufferSizeFrames < kMinimumStreamBufferSizeFrames
      THEN Err(m, "ILLEGAL_ARGUMENT")
      ELSE IF OpenStreamsOn(m, {i}) # {} THEN Err(m, "ILLEGAL_STATE")
      ELSE IF MaxOpenStreamCount[p] > 0 /\
              Cardinality(OpenStreamsOn(m, {j \in CfgIds : m.cfg[j] = p}))
                >= MaxOpenStreamCount[p]
      THEN Err(m, "ILLEGAL_STATE")
      ELSE Res([m EXCEPT !.streams[s] = [cfg |-> i, mIsClosed |-> FALSE]], "OK", s)

\* StreamIn::close() / StreamOut::close().
close(m, s) ==
  IF ~m.streams[s].mIsClosed
  THEN Ok([m EXCEPT !.streams[s].mIsClosed = TRUE])
  ELSE Err(m, "ILLEGAL_STATE")

\* The source and sink configs of a patch exist and have a route.
PatchValid(m, src, sink) ==
  /\ src # NoId /\ sink # NoId /\ m.cfg[src] # NoId /\ m.cfg[sink] # NoId
  /\ <<RoutePort(m, m.cfg[src]), RoutePort(m, m.cfg[sink])>> \in Routes

\* The module numbers its patches with the lowest id not in use.
NewPatchId(m) == CHOOSE i \in Free(m.patches, NoPatch) :
                   \A j \in Free(m.patches, NoPatch) : i <= j

\* setAudioPatch for a new patch (id 0) with one source and one sink config.
setAudioPatch(m, src, sink) ==
  IF ~PatchValid(m, src, sink) THEN Err(m, "ILLEGAL_ARGUMENT")
  ELSE Res([m EXCEPT !.patches[NewPatchId(m)] = [src |-> src, sink |-> sink]],
           "OK", NewPatchId(m))

\* setAudioPatch for an AudioPatch that carries an id: 0 asks for a new
\* patch (WithAudioPatch and WithAudioPortConfig rely on it), the id of a
\* patch updates that patch in place, any other id is ILLEGAL_ARGUMENT.
setAudioPatchWithId(m, pid, src, sink) ==
  CASE pid = 0 -> setAudioPatch(m, src, sink)
    [] pid \notin PatchIds \/ m.patches[pid] = NoPatch -> Err(m, "ILLEGAL_ARGUMENT")
    [] ~PatchValid(m, src, sink) -> Err(m, "ILLEGAL_ARGUMENT")
    [] OTHER -> Res([m EXCEPT !.patches[pid] = [src |-> src, sink |-> sink]], "OK", pid)

resetAudioPatch(m, pid) ==
  IF pid \notin PatchIds \/ m.patches[pid] = NoPatch THEN Err(m, "ILLEGAL_ARGUMENT")
  ELSE Ok([m EXCEPT !.patches[pid] = NoPatch])

-----------------------------------------------------------------------------
(* The VTS helpers.  A SetUp returns the module state, whether its ASSERTs *)
(* held, and the helper object as it is left; a destructor returns the     *)
(* module state and whether its EXPECT_IS_OK held.                         *)

\* Mutant: the retry with the suggested config does not take ownership,
\* as if mModule were set only on the first path.
WithAudioPortConfigSetUpRetryNotOwned(m, spec, applies) ==
  IF spec \in CfgIds THEN [st |-> m, ok |-> TRUE, h |-> [id |-> spec, owns |-> FALSE]]
  ELSE LET r1 == setAudioPortConfig(m, spec, applies)
           r2 == setAudioPortConfig(r1.st, spec, TRUE)
       IN  IF r1.status # "OK" THEN [st |-> m, ok |-> FALSE, h |-> NoCfg]
           ELSE IF r1.applied
           THEN [st |-> r1.st, ok |-> TRUE, h |-> [id |-> r1.id, owns |-> TRUE]]
           ELSE IF spec \notin MixPorts /\ r2.status = "OK" /\ r2.applied
           THEN [st |-> r2.st, ok |-> TRUE, h |-> [id |-> r2.id, owns |-> FALSE]]
           ELSE [st |-> r1.st, ok |-> FALSE, h |-> NoCfg]

\* WithAudioPortConfig::SetUp / SetUpImpl.  A config spec is either a port
\* (a new config, id 0) or the id of an existing config, for which the
\* helper is a no-op wrapper.  Only device port configs are negotiated:
\* when the HAL does not apply one it is retried once with the suggestion.
WithAudioPortConfigSetUp(m, spec, applies) ==
  IF spec \in CfgIds THEN [st |-> m, ok |-> TRUE, h |-> [id |-> spec, owns |-> FALSE]]
  ELSE LET r1 == setAudioPortConfig(m, spec, applies)
           r2 == setAudioPortConfig(r1.st, spec, TRUE)
           negotiate == spec \notin MixPorts
       IN  IF r1.status # "OK" THEN [st |-> m, ok |-> FALSE, h |-> NoCfg]
           ELSE IF r1.applied
           THEN [st |-> r1.st, ok |-> TRUE, h |-> [id |-> r1.id, owns |-> TRUE]]
           ELSE IF negotiate /\ r2.status = "OK" /\ r2.applied
           THEN [st |-> r2.st, ok |-> TRUE, h |-> [id |-> r2.id, owns |-> TRUE]]
           ELSE [st |-> r1.st, ok |-> FALSE, h |-> NoCfg]

\* ~WithAudioPortConfig.
DestroyPortConfig(m, h) ==
  IF h.owns THEN LET r == resetAudioPortConfig(m, h.id)
                 IN  [st |-> r.st, ok |-> r.status = "OK"]
  ELSE [st |-> m, ok |-> TRUE]

\* WithDebugFlags::createNested(debug), a change of simulateDeviceConnections,
\* and SetUp.  The parent is the fixture's 'debug', whose flags simulate
\* connections.  mModule is never assigned.
NestedDebugFlagsSetUp(m, simulate) ==
  LET r == setModuleDebug(m, simulate)
  IN  [st |-> r.st, ok |-> r.status = "OK",
       h |-> [kind |-> "debug", initial |-> TRUE, flags |-> simulate,
              mModule |-> FALSE]]

\* ~WithDebugFlags.
DestroyDebugFlags(m, h) ==
  IF h.mModule THEN LET r == setModuleDebug(m, h.initial)
                    IN  [st |-> r.st, ok |-> r.status = "OK"]
  ELSE [st |-> m, ok |-> TRUE]

\* WithDevicePortConnectedState::SetUp.
WithDevicePortConnectedStateSetUp(m, t) ==
  LET r == connectExternalDevice(m, t)
  IN  [st |-> r.st, ok |-> r.status = "OK" /\ r.id # t,
       h |-> [kind |-> "dev", id |-> r.id, mModule |-> r.status = "OK" /\ r.id # t]]

\* ~WithDevicePortConnectedState.
DestroyDevicePortConnectedState(m, h) ==
  IF h.mModule THEN LET r == disconnectExternalDevice(m, h.id)
                    IN  [st |-> r.st, ok |-> r.status = "OK"]
  ELSE [st |-> m, ok |-> TRUE]

\* WithStream::SetUpNoChecks: open the stream; keep it only on success.
SetUpNoChecks(m, cfgId, isInput, bufferSizeFrames) ==
  openStream(m, cfgId, isInput, bufferSizeFrames)

\* WithStream::SetUp (checked) asserts that SetUpNoChecks succeeds;
\* the negative tests call SetUpPortConfig and SetUpNoChecks and only
\* expect a status.
WithStreamSetUp(m, spec, isInput, bufferSizeFrames, applies, checked) ==
  LET c == WithAudioPortConfigSetUp(m, spec, applies)
      o == SetUpNoChecks(c.st, c.h.id, isInput, bufferSizeFrames)
  IN  IF ~c.ok
      THEN [st |-> c.st, ok |-> FALSE,
            h |-> [kind |-> "stream", cfg |-> c.h, stream |-> NoId]]
      ELSE [st |-> o.st, ok |-> o.status = "OK" \/ ~checked,
            h |-> [kind |-> "stream", cfg |-> c.h, stream |-> o.id]]

\* Mutant: the port config is reset before the stream is closed.
DestroyStreamConfigFirst(m, h) ==
  LET p == DestroyPortConfig(m, h.cfg)
      c == IF h.stream # NoId THEN close(p.st, h.stream) ELSE Ok(p.st)
  IN  [st |-> c.st, ok |-> c.status = "OK" /\ p.ok]

\* ~WithStream: close the stream, then the member mPortConfig goes.
DestroyStream(m, h) ==
  LET c == IF h.stream # NoId THEN close(m, h.stream) ELSE Ok(m)
      p == DestroyPortConfig(c.st, h.cfg)
  IN  [st |-> p.st, ok |-> c.status = "OK" /\ p.ok]

\* WithAudioPatch::SetUp (checked): SetUpPortConfigs, then SetUpNoChecks,
\* which sets mModule before it calls setAudioPatch.  SetNonRoutablePatch
\* calls the two itself and only expects a status.
WithAudioPatchSetUp(m, srcSpec, sinkSpec, aSrc, aSink, checked) ==
  LET s == WithAudioPortConfigSetUp(m, srcSpec, aSrc)
      k == WithAudioPortConfigSetUp(s.st, sinkSpec, aSink)
      p == setAudioPatch(k.st, s.h.id, k.h.id)
      h(sink, mod, id) == [kind |-> "patch", src |-> s.h, sink |-> sink,
                           mModule |-> mod, id |-> id]
  IN  IF ~s.ok THEN [st |-> s.st, ok |-> FALSE, h |-> h(NoCfg, FALSE, NoId)]
      ELSE IF ~k.ok THEN [st |-> k.st, ok |-> FALSE, h |-> h(k.h, FALSE, NoId)]
      ELSE [st |-> p.st, ok |-> p.status = "OK" \/ ~checked,
            h |-> h(k.h, TRUE, p.id)]

\* ~WithAudioPatch: reset the patch, then the members mSinkPortConfig and
\* mSrcPortConfig go, in the reverse order of their declaration.
DestroyAudioPatch(m, h) ==
  LET r == IF h.mModule /\ h.id # NoId THEN resetAudioPatch(m, h.id) ELSE Ok(m)
      k == DestroyPortConfig(r.st, h.sink)
      s == DestroyPortConfig(k.st, h.src)
  IN  [st |-> s.st, ok |-> r.status = "OK" /\ k.ok /\ s.ok]

\* The destructor of a helper.
Destroy(m, h) ==
  CASE h.kind = "debug"  -> DestroyDebugFlags(m, h)
    [] h.kind = "cfg"    -> DestroyPortConfig(m, h.cfg)
    [] h.kind = "dev"    -> DestroyDevicePortConnectedState(m, h)
    [] h.kind = "stream" -> DestroyStream(m, h)
    [] h.kind = "patch"  -> DestroyAudioPatch(m, h)

-----------------------------------------------------------------------------
(* The gtest fixture and body.                                             *)

Init ==
  /\ mDebug = FALSE
  /\ mConnectedDevicePorts = [c \in ConnIds |-> NoId]
  /\ configs = [i \in CfgIds |-> NoId]
  /\ streams = [s \in StreamIds |-> FreeStream]
  /\ mPatches = [p \in PatchIds |-> NoPatch]
  /\ phase = "setup"
  /\ scope = <<>>
  /\ heldStream = NoId
  /\ failed = FALSE
  /\ teardownFailed = FALSE

\* AudioCoreModuleBase::SetUpImpl: the fixture's debug flags simulate
\* device connections.
SetUpImpl ==
  /\ phase = "setup"
  /\ LET r == setModuleDebug(Mod, TRUE)
     IN  /\ SetMod(r.st)
         /\ phase' = IF r.status = "OK" THEN "body" ELSE "unwind"
         /\ failed' = (r.status # "OK")
  /\ UNCHANGED <<scope, heldStream, teardownFailed>>

\* A helper is constructed while the body runs; the bound on the nesting.
CanSetUp == phase = "body" /\ Len(scope) < MaxScope

\* The number of new port configs a list of config specs asks the module
\* for is within the ids it can hand out.
CfgRoom(specs) ==
  Cardinality({i \in DOMAIN specs : specs[i] \notin CfgIds})
    <= Cardinality(Free(configs, NoId))

\* A helper is constructed in the innermost scope and set up; a failed
\* ASSERT returns from the body.
Construct(r) ==
  /\ SetMod(r.st)
  /\ scope' = Append(scope, r.h)
  /\ IF r.ok THEN UNCHANGED <<phase, failed>>
     ELSE phase' = "unwind" /\ failed' = TRUE
  /\ UNCHANGED <<heldStream, teardownFailed>>

LiveCfgs == {i \in CfgIds : configs[i] # NoId}
CfgPorts == MixPorts \cup DevicePorts \cup Connected(Mod)
\* The HAL may decline to apply a device port config and suggest one.
Applies(spec) == IF spec \in DevicePorts \cup ConnIds THEN BOOLEAN ELSE {TRUE}

NestedDebugFlags ==
  /\ CanSetUp
  /\ \E sim \in BOOLEAN : Construct(NestedDebugFlagsSetUp(Mod, sim))

PortConfig ==
  /\ CanSetUp
  /\ \E p \in CfgPorts, a \in BOOLEAN :
       /\ a \in Applies(p) /\ CfgRoom(<<p>>)
       /\ LET r == WithAudioPortConfigSetUp(Mod, p, a)
          IN  Construct([r EXCEPT !.h = [kind |-> "cfg", cfg |-> r.h]])

DevicePortConnectedState ==
  /\ CanSetUp
  /\ Free(mConnectedDevicePorts, NoId) # {}
  /\ \E t \in ExtPorts : Construct(WithDevicePortConnectedStateSetUp(Mod, t))

Stream ==
  /\ CanSetUp
  /\ Free(streams, FreeStream) # {}
  /\ \E spec \in MixPorts \cup LiveCfgs, isInput, checked \in BOOLEAN,
        b \in BufferSizes :
       /\ checked => b = kDefaultBufferSizeFrames
       /\ CfgRoom(<<spec>>)
       /\ Construct(WithStreamSetUp(Mod, spec, isInput, b, TRUE, checked))

AudioPatch ==
  /\ CanSetUp
  /\ Free(mPatches, NoPatch) # {}
  /\ \E src, sink \in CfgPorts \cup LiveCfgs, a1, a2, checked \in BOOLEAN :
       /\ a1 \in Applies(src) /\ a2 \in Applies(sink)
       /\ CfgRoom(<<src, sink>>)
       /\ Construct(WithAudioPatchSetUp(Mod, src, sink, a1, a2, checked))

\* The innermost helper is destroyed: at the end of its scope in the body,
\* or while the body returns.  CloseTwice keeps the stream pointer of a
\* WithStream past its scope; otherwise the stream object is released.
DestroyInnermost ==
  /\ phase \in {"body", "unwind"}
  /\ scope # <<>>
  /\ LET h == scope[Len(scope)]
         r == Destroy(Mod, h)
         s == IF h.kind = "stream" THEN h.stream ELSE NoId
     IN  \E hold \in BOOLEAN :
           /\ hold => s # NoId /\ heldStream = NoId /\ phase = "body"
           /\ SetMod(IF s = NoId \/ hold THEN r.st
                     ELSE [r.st EXCEPT !.streams[s] = FreeStream])
           /\ heldStream' = IF hold THEN s ELSE heldStream
           /\ teardownFailed' = (teardownFailed \/ ~r.ok)
           /\ failed' = (failed \/ ~r.ok)
  /\ scope' = SubSeq(scope, 1, Len(scope) - 1)
  /\ UNCHANGED phase

\* CloseTwice: the held stream is closed again, which must fail with
\* ILLEGAL_STATE; the pointer is then released.
CloseHeld ==
  /\ phase = "body"
  /\ heldStream # NoId
  /\ LET r == close(Mod, heldStream)
     IN  /\ SetMod([r.st EXCEPT !.streams[heldStream] = FreeStream])
         /\ failed' = (failed \/ r.status # "ILLEGAL_STATE")
  /\ heldStream' = NoId
  /\ UNCHANGED <<phase, scope, teardownFailed>>

\* GetNonExistentIds(allIds): -1, 0 and 1 when there are none, else one
\* below the least and one above the greatest.
GetNonExistentIds(ids) ==
  IF ids = {} THEN <<-1, 0, 1>> ELSE <<Min(ids) - 1, Max(ids) + 1>>

\* GetAllPatchIds: the ids getAudioPatches reports.
GetAllPatchIds == {p \in PatchIds : mPatches[p] # NoPatch}

\* UpdateInvalidPatchId: the innermost WithAudioPatch's patch is set again
\* under each id GetNonExistentIds gives for GetAllPatchIds, in order, and
\* each call must fail with ILLEGAL_ARGUMENT (EXPECT_STATUS).  The model
\* has room for one more patch.
UpdateInvalidPatchId ==
  /\ phase = "body"
  /\ scope # <<>> /\ Free(mPatches, NoPatch) # {}
  /\ LET h == scope[Len(scope)]
         try(acc, pid) ==
           LET r == setAudioPatchWithId(acc.st, pid, h.src.id, h.sink.id)
           IN  [st |-> r.st, ok |-> acc.ok /\ r.status = "ILLEGAL_ARGUMENT"]
         r == FoldLeft(try, [st |-> Mod, ok |-> TRUE],
                       GetNonExistentIds(GetAllPatchIds))
     IN  /\ h.kind = "patch" /\ h.id # NoId
         /\ SetMod(r.st)
         /\ failed' = (failed \/ ~r.ok)
  /\ UNCHANGED <<phase, scope, heldStream, teardownFailed>>

\* The body returns normally.
EndBody ==
  /\ phase = "body"
  /\ phase' = "unwind"
  /\ UNCHANGED <<module, scope, heldStream, failed, teardownFailed>>

\* The body has returned and its helpers are gone; a held stream pointer
\* is dropped, and AudioCoreModuleBase::TearDownImpl resets the debug flags.
TearDownImpl ==
  /\ phase = "unwind"
  /\ scope = <<>>
  /\ LET m == IF heldStream = NoId THEN Mod
              ELSE [Mod EXCEPT !.streams[heldStream] = FreeStream]
         r == setModuleDebug(m, FALSE)
     IN  /\ SetMod(r.st)
         /\ teardownFailed' = (teardownFailed \/ r.status # "OK")
         /\ failed' = (failed \/ r.status # "OK")
  /\ heldStream' = NoId
  /\ phase' = "setup"
  /\ UNCHANGED scope

Next ==
  \/ SetUpImpl
  \/ NestedDebugFlags \/ PortConfig \/ DevicePortConnectedState
  \/ Stream \/ AudioPatch
  \/ UpdateInvalidPatchId
  \/ DestroyInnermost \/ CloseHeld \/ EndBody
  \/ TearDownImpl

Spec == Init /\ [][Next]_vars

-----------------------------------------------------------------------------
(* Properties.                                                            *)

CfgHelper == [id : CfgIds \cup {NoId}, owns : BOOLEAN]
Helpers ==
  [kind : {"debug"}, initial : BOOLEAN, flags : BOOLEAN, mModule : BOOLEAN]
  \cup [kind : {"cfg"}, cfg : CfgHelper]
  \cup [kind : {"dev"}, id : ConnIds \cup {NoId}, mModule : BOOLEAN]
  \cup [kind : {"stream"}, cfg : CfgHelper, stream : StreamIds \cup {NoId}]
  \cup [kind : {"patch"}, src : CfgHelper, sink : CfgHelper, mModule : BOOLEAN,
        id : PatchIds \cup {NoId}]

TypeOK ==
  /\ mDebug \in BOOLEAN
  /\ mConnectedDevicePorts \in [ConnIds -> ExtPorts \cup {NoId}]
  /\ configs \in [CfgIds -> MixPorts \cup DevicePorts \cup ConnIds \cup {NoId}]
  /\ streams \in [StreamIds -> [cfg : CfgIds \cup {NoId}, mIsClosed : BOOLEAN]]
  /\ mPatches \in [PatchIds -> [src : CfgIds, sink : CfgIds] \cup {NoPatch}]
  /\ phase \in {"setup", "body", "unwind"}
  /\ scope \in Seq(Helpers) /\ Len(scope) <= MaxScope
  /\ heldStream \in StreamIds \cup {NoId}
  /\ {failed, teardownFailed} \subseteq BOOLEAN

\* The destructors of WithAudioPortConfig, WithDevicePortConnectedState,
\* WithStream and WithAudioPatch, and TearDownImpl, wrap their calls in
\* EXPECT_IS_OK: whatever helpers a test nests, and wherever an ASSERT
\* returns from its body, none of those calls fails against a module that
\* keeps the contract.
TeardownSucceeds == ~teardownFailed

\* When the fixture sets up the next test, the previous test has left no
\* port config, connected device port, patch or open stream behind.
ModuleClean ==
  phase = "setup" =>
    /\ \A i \in CfgIds : configs[i] = NoId
    /\ \A c \in ConnIds : mConnectedDevicePorts[c] = NoId
    /\ \A p \in PatchIds : mPatches[p] = NoPatch
    /\ \A s \in StreamIds : streams[s].mIsClosed

=============================================================================
