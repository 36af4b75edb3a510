---------------------------- MODULE EffectContext ---------------------------
(***************************************************************************)
(* EffectContext of the default audio effect HAL                           *)
(* (src/audio/aidl/default/include/effect-impl/EffectContext.h): the      *)
(* status, input and output FMQs of an effect and its work buffer.         *)
(*                                                                         *)
(* A queue is its capacity and the number of elements in it.  libfmq is   *)
(* not in the repository: a queue made with 0 elements is not valid.       *)
(* Three actors share the queues: the binder thread that calls the         *)
(* context's methods, the effect's worker thread (EffectThread, not in the *)
(* repository), which moves input to output and posts a status, and the   *)
(* client, which writes input and reads output and status.                 *)
(***************************************************************************)
EXTENDS AudioUtils

CONSTANTS
  Commons,      \* Parameter::Common values an effect may be opened with
  StatusDepth,  \* statusDepth of the constructor
  Devices, Modes, Sources, Volumes,  \* values of the other parameters
  NoCommon,     \* model value: a default-constructed Parameter::Common
  DefaultParams, \* the default-constructed device, mode, source, volume
  WorkerRunsDuringReset  \* whether the worker thread may post during resetBuffer

ASSUME StatusDepth \in Nat /\ WorkerRunsDuringReset \in BOOLEAN

VARIABLES
  ctx,              \* "none", "open", or "aborted" (LOG_ALWAYS_FATAL)
  mSessionId, mCommon, mInputFrameSize, mOutputFrameSize,
  params,           \* [device, mode, source, volume]
  cap,              \* queue -> elements it was created with
  mWorkBufferCap,   \* mWorkBuffer.capacity()
  q,                \* queue -> elements in it
  rpc,              \* where resetBuffer is: "idle", "sized", "in", "out"
  statusVecSize,    \* size of resetBuffer's local 'status' vector
  workOverflow,     \* a read of resetBuffer went past the work buffer
  statusOverflow    \* a read of resetBuffer went past 'status'

vars == <<ctx, mSessionId, mCommon, mInputFrameSize, mOutputFrameSize, params,
          cap, mWorkBufferCap, q, rpc, statusVecSize, workOverflow,
          statusOverflow>>

Queues == {"status", "in", "out"}
Valid(x) == cap[x] > 0

\* 'frameCount * frameSize / sizeof(float)' in size_t.
BufferSizeInFloat(io, frameSize) == (io.frameCount * frameSize) \div 4

Init ==
  /\ ctx = "none"
  /\ mSessionId = "INVALID_AUDIO_SESSION_ID"
  /\ mCommon = NoCommon
  /\ mInputFrameSize = 0 /\ mOutputFrameSize = 0
  /\ params = DefaultParams
  /\ cap = [x \in Queues |-> 0]
  /\ mWorkBufferCap = 0
  /\ q = [x \in Queues |-> 0]
  /\ rpc = "idle"
  /\ statusVecSize = 0
  /\ workOverflow = FALSE /\ statusOverflow = FALSE

\* Mutant: the work buffer is reserved for the input queue only.
EffectContextReserveInput(common) ==
  LET in  == common.input
      out == common.output
      inFrame  == getFrameSizeInBytes(in.format, in.layout)
      outFrame == getFrameSizeInBytes(out.format, out.layout)
      inSize  == BufferSizeInFloat(in, inFrame)
  IN  /\ ctx' = "open"
      /\ mSessionId' = common.session
      /\ mInputFrameSize' = inFrame /\ mOutputFrameSize' = outFrame
      /\ cap' = [status |-> StatusDepth, in |-> inSize,
                 out |-> BufferSizeInFloat(out, outFrame)]
      /\ mWorkBufferCap' = inSize

\* The constructor, past the FLOAT_32_BIT checks.
EffectContext(common) ==
  LET in  == common.input
      out == common.output
      inFrame  == getFrameSizeInBytes(in.format, in.layout)
      outFrame == getFrameSizeInBytes(out.format, out.layout)
      inSize  == BufferSizeInFloat(in, inFrame)
      outSize == BufferSizeInFloat(out, outFrame)
  IN  /\ ctx' = "open"
      /\ mSessionId' = common.session
      /\ mInputFrameSize' = inFrame /\ mOutputFrameSize' = outFrame
      /\ cap' = [status |-> StatusDepth, in |-> inSize, out |-> outSize]
      /\ mWorkBufferCap' = IF inSize >= outSize THEN inSize ELSE outSize

\* An effect is opened with a Parameter::Common.  A format whose pcm is not
\* FLOAT_32_BIT aborts the process; an invalid FMQ is only logged.
Construct ==
  /\ ctx = "none"
  /\ \E common \in Commons :
       IF common.input.format.pcm # "FLOAT_32_BIT"
          \/ common.output.format.pcm # "FLOAT_32_BIT"
       THEN /\ ctx' = "aborted"
            /\ UNCHANGED <<mSessionId, mInputFrameSize, mOutputFrameSize, cap,
                           mWorkBufferCap>>
       ELSE EffectContext(common)
  /\ UNCHANGED <<mCommon, params, q, rpc, statusVecSize, workOverflow,
                 statusOverflow>>

\* The client writes a float to the input queue.
ClientWrite ==
  /\ ctx = "open" /\ Valid("in") /\ q["in"] < cap["in"]
  /\ q' = [q EXCEPT !["in"] = @ + 1]
  /\ UNCHANGED <<ctx, mSessionId, mCommon, mInputFrameSize, mOutputFrameSize,
                 params, cap, mWorkBufferCap, rpc, statusVecSize, workOverflow,
                 statusOverflow>>

\* The client reads a float of output, or a status.
ClientRead ==
  /\ ctx = "open"
  /\ \E x \in {"out", "status"} :
       /\ Valid(x) /\ q[x] > 0
       /\ q' = [q EXCEPT ![x] = @ - 1]
  /\ UNCHANGED <<ctx, mSessionId, mCommon, mInputFrameSize, mOutputFrameSize,
                 params, cap, mWorkBufferCap, rpc, statusVecSize, workOverflow,
                 statusOverflow>>

\* The worker thread processes a float and posts a status.
WorkerProcess ==
  /\ ctx = "open"
  /\ rpc = "idle" \/ WorkerRunsDuringReset
  /\ \A x \in Queues : Valid(x)
  /\ q["in"] > 0 /\ q["out"] < cap["out"] /\ q["status"] < cap["status"]
  /\ q' = [q EXCEPT !["in"] = @ - 1, !["out"] = @ + 1, !["status"] = @ + 1]
  /\ UNCHANGED <<ctx, mSessionId, mCommon, mInputFrameSize, mOutputFrameSize,
                 params, cap, mWorkBufferCap, rpc, statusVecSize, workOverflow,
                 statusOverflow>>

\* resetBuffer(), line by line: the 'status' vector is sized with the
\* status queue's availableToRead(); the input and the output queue are
\* each read, availableToRead() elements at a time, into the work buffer;
\* the status queue is read, with a fresh availableToRead(), into 'status'.
\* Mutant: 'status' is sized with the input queue's availableToRead().
resetBufferSizeFromInput ==
  /\ ctx = "open" /\ rpc = "idle"
  /\ statusVecSize' = q["in"]
  /\ rpc' = "sized"
  /\ UNCHANGED <<ctx, mSessionId, mCommon, mInputFrameSize, mOutputFrameSize,
                 params, cap, mWorkBufferCap, q, workOverflow, statusOverflow>>

resetBufferSize ==
  /\ ctx = "open" /\ rpc = "idle"
  /\ statusVecSize' = q["status"]
  /\ rpc' = "sized"
  /\ UNCHANGED <<ctx, mSessionId, mCommon, mInputFrameSize, mOutputFrameSize,
                 params, cap, mWorkBufferCap, q, workOverflow, statusOverflow>>

ReadInto(x, size, overflow) ==
  /\ overflow' = (overflow \/ q[x] > size)
  /\ q' = [q EXCEPT ![x] = 0]

resetBufferReadInput ==
  /\ rpc = "sized"
  /\ ReadInto("in", mWorkBufferCap, workOverflow)
  /\ rpc' = "in"
  /\ UNCHANGED <<ctx, mSessionId, mCommon, mInputFrameSize, mOutputFrameSize,
                 params, cap, mWorkBufferCap, statusVecSize, statusOverflow>>

resetBufferReadOutput ==
  /\ rpc = "in"
  /\ ReadInto("out", mWorkBufferCap, workOverflow)
  /\ rpc' = "out"
  /\ UNCHANGED <<ctx, mSessionId, mCommon, mInputFrameSize, mOutputFrameSize,
                 params, cap, mWorkBufferCap, statusVecSize, statusOverflow>>

resetBufferReadStatus ==
  /\ rpc = "out"
  /\ ReadInto("status", statusVecSize, statusOverflow)
  /\ rpc' = "idle"
  /\ UNCHANGED <<ctx, mSessionId, mCommon, mInputFrameSize, mOutputFrameSize,
                 params, cap, mWorkBufferCap, statusVecSize, workOverflow>>

\* setCommon: mCommon = common; the frame sizes and queues stay as they are.
setCommon ==
  /\ ctx = "open"
  /\ \E common \in Commons : mCommon' = common
  /\ UNCHANGED <<ctx, mSessionId, mInputFrameSize, mOutputFrameSize, params,
                 cap, mWorkBufferCap, q, rpc, statusVecSize, workOverflow,
                 statusOverflow>>

\* setOutputDevice, setAudioMode, setAudioSource, setVolumeStereo: each
\* stores its argument and returns SUCCESS.
SetParam(field, values) ==
  /\ ctx = "open"
  /\ \E v \in values : params' = [params EXCEPT ![field] = v]
  /\ UNCHANGED <<ctx, mSessionId, mCommon, mInputFrameSize, mOutputFrameSize,
                 cap, mWorkBufferCap, q, rpc, statusVecSize, workOverflow,
                 statusOverflow>>

setOutputDevice == SetParam("device", Devices)
setAudioMode == SetParam("mode", Modes)
setAudioSource == SetParam("source", Sources)
setVolumeStereo == SetParam("volume", Volumes)

Next ==
  \/ Construct
  \/ ClientWrite \/ ClientRead \/ WorkerProcess
  \/ resetBufferSize \/ resetBufferReadInput \/ resetBufferReadOutput
  \/ resetBufferReadStatus
  \/ setCommon
  \/ setOutputDevice \/ setAudioMode \/ setAudioSource \/ setVolumeStereo

Spec == Init /\ [][Next]_vars

-----------------------------------------------------------------------------

TypeOK ==
  /\ ctx \in {"none", "open", "aborted"}
  /\ mCommon \in Commons \cup {NoCommon}
  /\ params \in [device : Devices, mode : Modes, source : Sources, volume : Volumes]
  /\ cap \in [Queues -> Nat] /\ mWorkBufferCap \in Nat
  /\ q \in [Queues -> Nat] /\ \A x \in Queues : q[x] <= cap[x]
  /\ rpc \in {"idle", "sized", "in", "out"}
  /\ statusVecSize \in 0..StatusDepth
  /\ {workOverflow, statusOverflow} \subseteq BOOLEAN

\* resetBuffer reads whatever the client and the worker have left in the
\* input and the output queue into the work buffer, which the constructor
\* reserved for the larger of the two: no read goes past it.
WorkBufferFits == ~workOverflow

\* resetBuffer reads the status queue into a vector it sized with the
\* status queue's availableToRead() two reads earlier: the read never
\* writes past the vector.
StatusReadFits == ~statusOverflow

=============================================================================
