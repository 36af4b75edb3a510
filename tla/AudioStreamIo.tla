---------------------------- MODULE AudioStreamIo ----------------------------
(***************************************************************************)
(* The stream I/O worker of the audio core VTS,                            *)
(* src/audio/aidl/vts/VtsHalAudioCoreTargetTest.cpp.                       *)
(*                                                                         *)
(* The test's worker thread (StreamReaderLogic for an input stream,        *)
(* StreamWriterLogic for an output stream) runs cycle() until it returns   *)
(* EXIT or ABORT.  Each cycle asks its driver for the next command, writes *)
(* it into the command MQ (the writer first puts data into the data MQ),   *)
(* blocks on the reply MQ, validates the reply and passes it to the        *)
(* driver; the reader then drains the data MQ.  The HAL's stream worker    *)
(* is the other end of the three queues.  Its code is not in this          *)
(* repository, so it is modelled as any HAL: for each command it may       *)
(* reply with any status, byte count, latency, xrun count, state and       *)
(* position, move any amount of data, and an input HAL may write more      *)
(* data after its reply.  History variables record whether the HAL         *)
(* conformed, so that the test's verdict can be compared with the truth.   *)
(***************************************************************************)
EXTENDS Integers, Sequences

CONSTANTS
  Directions,    \* the fixtures run: TRUE for AudioStreamIoIn, FALSE for ...Out
  BufferBytes,   \* mData.size(): frameSizeBytes * bufferSizeFrames
  DataMQBytes,   \* the data MQ's quantum count (one-byte quanta)
  MaxFrames,     \* largest observable.frames a HAL reply may carry
  NoFrames,      \* model value: mPreviousFrames holds no value
  NoTransition   \* model value: mUnexpectedTransition is empty

ASSUME Directions \subseteq BOOLEAN /\ Directions # {}
ASSUME BufferBytes \in Nat \ {0} /\ DataMQBytes \in Nat /\ MaxFrames \in Nat

\* StreamDescriptor::State values (enum_range); a HAL may send any other.
StateEnum == {"STANDBY", "IDLE", "ACTIVE", "PAUSED", "DRAINING", "ERROR"}
LATENCY_UNKNOWN == -1
INT32_MIN == -2147483647 - 1

VARIABLES
  isInput,       \* IOTraits<Stream>::is_input: StreamReader, else StreamWriter
  driver,        \* which StreamLogicDriver the test uses: "default"/"invalid"
  mCommands,     \* the driver's command list
  mNextCommand,  \* the driver's index of the next command (0-based)
  mPreviousFrames, mObservablePositionIncrease,
  mRetrogradeObservablePosition, mUnexpectedTransition,
  mStatuses,     \* StreamLogicDriverInvalidCommand: (command, status) pairs
  worker,        \* "running", or how cycle() ended: "EXIT" / "ABORT"
  pc,            \* where the worker thread is: "cycle", "reply", "data"
  command,       \* the command of the current cycle
  acceptedReply, \* the reader's processValidReply result, used after the read
  cmdMQ, replyMQ,\* the command and reply MQs (capacity one)
  dataMQ,        \* the data MQ: one entry per byte, the cycle it was made for
  \* History variables, not program state: what the HAL really did.
  halDeviated,   \* some reply did not conform to the command sequence
  halDataDeviated, \* some cycle's data did not match its reply
  halPrevFrames, halIncrease, halRetrograde, \* the HAL's reported positions
  halAcceptedInvalid \* the HAL did not reject some invalid command

driverVars == <<mNextCommand, mPreviousFrames, mObservablePositionIncrease,
                mRetrogradeObservablePosition, mUnexpectedTransition, mStatuses>>
history == <<halDeviated, halDataDeviated, halPrevFrames, halIncrease,
             halRetrograde, halAcceptedInvalid>>
vars == <<isInput, driver, mCommands, driverVars, worker, pc, command, acceptedReply,
          cmdMQ, replyMQ, dataMQ, history>>

-----------------------------------------------------------------------------
(* The command sequences of the AudioStreamIo tests.                       *)

kReadOrWriteSeq == <<<<"START", "IDLE">>, <<"BURST", "ACTIVE">>,
                     <<"BURST", "ACTIVE">>, <<"BURST", "ACTIVE">>>>
kDrainInSeq == <<<<"START", "IDLE">>, <<"BURST", "ACTIVE">>,
                 <<"DRAIN", "DRAINING">>, <<"START", "ACTIVE">>,
                 <<"DRAIN", "DRAINING">>, <<"BURST", "STANDBY">>>>
kDrainOutSeq == <<<<"START", "IDLE">>, <<"BURST", "ACTIVE">>,
                  <<"DRAIN", "IDLE">>>>
kDrainPauseOutSeq == <<<<"START", "IDLE">>, <<"BURST", "ACTIVE">>,
                       <<"DRAIN", "IDLE">>>>
kStandbySeq == <<<<"START", "IDLE">>, <<"STANDBY", "STANDBY">>,
                 <<"START", "IDLE">>, <<"BURST", "ACTIVE">>>>
kPauseInSeq == <<<<"START", "IDLE">>, <<"BURST", "ACTIVE">>,
                 <<"PAUSE", "PAUSED">>, <<"BURST", "ACTIVE">>,
                 <<"PAUSE", "PAUSED">>, <<"FLUSH", "STANDBY">>>>
kPauseOutSeq == <<<<"START", "IDLE">>, <<"BURST", "ACTIVE">>,
                  <<"PAUSE", "PAUSED">>, <<"START", "ACTIVE">>,
                  <<"PAUSE", "PAUSED">>, <<"BURST", "PAUSED">>,
                  <<"START", "ACTIVE">>, <<"PAUSE", "PAUSED">>>>
kFlushInSeq == <<<<"START", "IDLE">>, <<"BURST", "ACTIVE">>,
                 <<"PAUSE", "PAUSED">>, <<"FLUSH", "STANDBY">>>>
kFlushOutSeq == <<<<"START", "IDLE">>, <<"BURST", "ACTIVE">>,
                  <<"PAUSE", "PAUSED">>, <<"FLUSH", "IDLE">>>>

\* The sequences instantiated for AudioStreamIoIn / AudioStreamIoOut.
NamedSequences ==
  IF isInput THEN {kReadOrWriteSeq, kDrainInSeq, kStandbySeq, kPauseInSeq,
                   kFlushInSeq}
  ELSE {kReadOrWriteSeq, kDrainOutSeq, kDrainPauseOutSeq, kStandbySeq,
        kPauseOutSeq, kFlushOutSeq}

\* SendInvalidCommandImpl: four out-of-range codes, two negative BURSTs.
kInvalidCommands ==
  [i \in 1..4 |-> [code |-> "INVALID", fmqByteCount |-> 0]] \o
  <<[code |-> "BURST", fmqByteCount |-> -1],
    [code |-> "BURST", fmqByteCount |-> INT32_MIN]>>

-----------------------------------------------------------------------------
(* The drivers.                                                            *)

\* done() of both drivers.
done == mNextCommand >= Len(mCommands)

\* Fault variant of getNextCommand that decrements fmqByteCount unguarded.
getNextCommandUnguardedDecrement(maxDataSize, isWriter) ==
  IF driver = "invalid"
  THEN [command |-> mCommands[mNextCommand + 1], actualSize |-> 0]
  ELSE LET code == mCommands[mNextCommand + 1][1]
           dataSize == IF code = "BURST" THEN maxDataSize ELSE 0
       IN  [command |-> [code |-> code, fmqByteCount |-> dataSize - 1],
            actualSize |-> IF isWriter THEN dataSize ELSE 0]

\* getNextCommand(maxDataSize, actualSize): the writer passes actualSize,
\* the reader does not.
getNextCommand(maxDataSize, isWriter) ==
  IF driver = "invalid"
  THEN [command |-> mCommands[mNextCommand + 1], actualSize |-> 0]
  ELSE LET code == mCommands[mNextCommand + 1][1]
           dataSize == IF code = "BURST" THEN maxDataSize ELSE 0
       IN  [command |-> [code |-> code,
                         fmqByteCount |-> IF isWriter /\ dataSize > 1
                                          THEN dataSize - 1 ELSE dataSize],
            actualSize |-> IF isWriter THEN dataSize ELSE 0]

\* mPreviousState is initialised and never assigned.
mPreviousState == "<initial state>"

\* Fault variant of processValidReply that never flags a regression.
processValidReplyNoRetrograde(r) ==
  IF driver = "invalid"
  THEN [accepted |-> TRUE, prev |-> mPreviousFrames,
        inc |-> mObservablePositionIncrease,
        retro |-> mRetrogradeObservablePosition,
        unexpected |-> mUnexpectedTransition]
  ELSE LET expected == mCommands[mNextCommand]
           ok == expected[2] = r.state
       IN  [accepted |-> ok, prev |-> r.frames,
            inc |-> mObservablePositionIncrease \/
                      (mPreviousFrames # NoFrames /\ r.frames > mPreviousFrames),
            retro |-> mRetrogradeObservablePosition,
            unexpected |-> IF ok THEN mUnexpectedTransition
                           ELSE [from |-> mPreviousState, to |-> r.state,
                                 by |-> expected[1]]]

\* processValidReply(reply): the new driver state and its verdict.
processValidReply(r) ==
  IF driver = "invalid"
  THEN [accepted |-> TRUE, prev |-> mPreviousFrames,
        inc |-> mObservablePositionIncrease,
        retro |-> mRetrogradeObservablePosition,
        unexpected |-> mUnexpectedTransition]
  ELSE LET expected == mCommands[mNextCommand]
           ok == expected[2] = r.state
       IN  [accepted |-> ok, prev |-> r.frames,
            inc |-> mObservablePositionIncrease \/
                      (mPreviousFrames # NoFrames /\ r.frames > mPreviousFrames),
            retro |-> mRetrogradeObservablePosition \/
                      (mPreviousFrames # NoFrames /\ r.frames < mPreviousFrames),
            unexpected |-> IF ok THEN mUnexpectedTransition
                           ELSE [from |-> mPreviousState, to |-> r.state,
                                 by |-> expected[1]]]

\* interceptRawReply(reply): TRUE ends the cycle with CONTINUE.
interceptRawReply(r) ==
  IF driver = "invalid"
  THEN IF r.status # "BAD_VALUE"
       THEN [stop |-> r.status # "OK",
             statuses |-> Append(mStatuses, <<mNextCommand, r.status>>)]
       ELSE [stop |-> TRUE, statuses |-> mStatuses]
  ELSE [stop |-> FALSE, statuses |-> mStatuses]

-----------------------------------------------------------------------------
(* The worker's cycle().                                                   *)

ReplyValid(r, isWriter) ==
  /\ r.status = "OK"
  /\ r.fmqByteCount >= 0 /\ r.fmqByteCount <= command.fmqByteCount
  /\ isWriter => dataMQ = <<>>
  /\ ~(r.latencyMs < 0 /\ r.latencyMs # LATENCY_UNKNOWN)
  /\ r.xrunFrames >= 0
  /\ r.state \in StateEnum

SetDriver(pv) ==
  /\ mPreviousFrames' = pv.prev
  /\ mObservablePositionIncrease' = pv.inc
  /\ mRetrogradeObservablePosition' = pv.retro
  /\ mUnexpectedTransition' = pv.unexpected

Abort ==
  /\ worker' = "ABORT"
  /\ UNCHANGED pc

\* Fault variant of Continue that does not start the next cycle.
ContinueWithoutRestart == UNCHANGED <<pc, worker>>

\* cycle() returns CONTINUE: the worker thread runs the next cycle.
Continue ==
  /\ pc' = "cycle"
  /\ UNCHANGED worker

\* Both cycles start alike: EXIT when the driver is done, else take the
\* next command.  The writer first writes a whole buffer when actualSize
\* is not 0; an FMQ write that does not fit fails and the cycle aborts.
StreamReaderLogicSend ==
  /\ isInput /\ worker = "running" /\ pc = "cycle"
  /\ \/ /\ done
        /\ worker' = "EXIT"
        /\ UNCHANGED <<mNextCommand, pc, command, cmdMQ>>
     \/ /\ ~done
        /\ LET nc == getNextCommand(BufferBytes, FALSE)
           IN  /\ cmdMQ = <<>>
               /\ cmdMQ' = <<nc.command>>
               /\ command' = nc.command
        /\ mNextCommand' = mNextCommand + 1
        /\ pc' = "reply"
        /\ UNCHANGED worker
  /\ UNCHANGED <<driver, mCommands, mPreviousFrames,
                 mObservablePositionIncrease, mRetrogradeObservablePosition,
                 mUnexpectedTransition, mStatuses, acceptedReply, replyMQ,
                 dataMQ, history>>

StreamWriterLogicSend ==
  /\ ~isInput /\ worker = "running" /\ pc = "cycle"
  /\ \/ /\ done
        /\ worker' = "EXIT"
        /\ UNCHANGED <<mNextCommand, pc, command, cmdMQ, dataMQ>>
     \/ /\ ~done
        /\ LET nc == getNextCommand(BufferBytes, TRUE)
               fits == DataMQBytes - Len(dataMQ) >= BufferBytes
           IN  /\ mNextCommand' = mNextCommand + 1
               /\ command' = nc.command
               /\ IF nc.actualSize # 0 /\ ~fits
                  THEN /\ Abort
                       /\ UNCHANGED <<cmdMQ, dataMQ>>
                  ELSE /\ cmdMQ = <<>>
                       /\ dataMQ' = IF nc.actualSize # 0
                                    THEN dataMQ \o [i \in 1..BufferBytes |->
                                                      mNextCommand + 1]
                                    ELSE dataMQ
                       /\ cmdMQ' = <<nc.command>>
                       /\ pc' = "reply"
                       /\ UNCHANGED worker
  /\ UNCHANGED <<driver, mCommands, mPreviousFrames,
                 mObservablePositionIncrease, mRetrogradeObservablePosition,
                 mUnexpectedTransition, mStatuses, acceptedReply, replyMQ,
                 history>>

\* readBlocking on the reply MQ, then the reply's validation and the
\* driver; the reader drains the data MQ in a step of its own.
StreamReaderLogicReceive ==
  /\ isInput /\ worker = "running" /\ pc = "reply" /\ replyMQ # <<>>
  /\ LET r == Head(replyMQ)
         ir == interceptRawReply(r)
         pv == processValidReply(r)
     IN  /\ replyMQ' = <<>>
         /\ mStatuses' = ir.statuses
         /\ IF ir.stop
            THEN /\ Continue
                 /\ UNCHANGED <<acceptedReply, mPreviousFrames,
                                mObservablePositionIncrease,
                                mRetrogradeObservablePosition,
                                mUnexpectedTransition>>
            ELSE IF ~ReplyValid(r, FALSE)
            THEN /\ Abort
                 /\ UNCHANGED <<acceptedReply, mPreviousFrames,
                                mObservablePositionIncrease,
                                mRetrogradeObservablePosition,
                                mUnexpectedTransition>>
            ELSE /\ SetDriver(pv)
                 /\ acceptedReply' = pv.accepted
                 /\ pc' = "data"
                 /\ UNCHANGED worker
  /\ UNCHANGED <<driver, mCommands, mNextCommand, command, cmdMQ, dataMQ,
                 history>>

\* The reader reads everything available in the data MQ, then returns
\* CONTINUE or, for a reply the driver did not accept, ABORT.
StreamReaderLogicReadData ==
  /\ isInput /\ worker = "running" /\ pc = "data"
  /\ dataMQ' = <<>>
  /\ IF acceptedReply THEN Continue ELSE Abort
  /\ UNCHANGED <<driver, mCommands, driverVars, command, acceptedReply,
                 cmdMQ, replyMQ, history>>

StreamWriterLogicReceive ==
  /\ ~isInput /\ worker = "running" /\ pc = "reply" /\ replyMQ # <<>>
  /\ LET r == Head(replyMQ)
         ir == interceptRawReply(r)
         pv == processValidReply(r)
     IN  /\ replyMQ' = <<>>
         /\ mStatuses' = ir.statuses
         /\ IF ir.stop
            THEN /\ Continue
                 /\ UNCHANGED <<mPreviousFrames,
                                mObservablePositionIncrease,
                                mRetrogradeObservablePosition,
                                mUnexpectedTransition>>
            ELSE IF ~ReplyValid(r, TRUE)
            THEN /\ Abort
                 /\ UNCHANGED <<mPreviousFrames, mObservablePositionIncrease,
                                mRetrogradeObservablePosition,
                                mUnexpectedTransition>>
            ELSE /\ SetDriver(pv)
                 /\ IF pv.accepted THEN Continue
                    ELSE Abort
  /\ UNCHANGED <<driver, mCommands, mNextCommand, command, acceptedReply,
                 cmdMQ, dataMQ, history>>

-----------------------------------------------------------------------------
(* The HAL's stream worker: any HAL (environment, not repository code).    *)

\* The replies a HAL may send, one representative per outcome of the
\* worker's checks: a well-formed OK reply with any state, position and
\* byte count; a rejection; and a reply malformed in one field.
Replies ==
  LET reply(st, c, l, x, s, f) ==
        [status |-> st, fmqByteCount |-> c, latencyMs |-> l,
         xrunFrames |-> x, state |-> s, frames |-> f]
  IN  {reply("OK", c, LATENCY_UNKNOWN, 0, s, f) :
         c \in 0..BufferBytes,
         s \in (StateEnum \ {"ERROR"}) \cup {"OUT_OF_RANGE"}, f \in 0..MaxFrames}
      \cup {reply(st, 0, LATENCY_UNKNOWN, 0, "IDLE", 0) :
              st \in {"BAD_VALUE", "INVALID_OPERATION"}}
      \cup {reply("OK", -1, LATENCY_UNKNOWN, 0, "IDLE", 0),
            reply("OK", 0, -2, 0, "IDLE", 0),
            reply("OK", 0, LATENCY_UNKNOWN, -1, "IDLE", 0)}

\* What a conforming HAL replies to the current command of a sequence.
Conforms(r) ==
  /\ r.status = "OK"
  /\ r.fmqByteCount \in 0..command.fmqByteCount
  /\ r.latencyMs >= 0 \/ r.latencyMs = LATENCY_UNKNOWN
  /\ r.xrunFrames >= 0
  /\ r.state = mCommands[mNextCommand][2]

\* The HAL takes the command, moves data (an input HAL writes bytes for
\* this cycle, an output HAL consumes bytes) and writes one reply.  The
\* data conforms when an input HAL wrote exactly the bytes it reports into
\* an empty MQ, and an output HAL consumed everything.
HalCycle ==
  /\ cmdMQ # <<>> /\ replyMQ = <<>>
  /\ \E r \in Replies :
       /\ \E moved \in IF isInput THEN 0..(DataMQBytes - Len(dataMQ))
                       ELSE 0..Len(dataMQ) :
            /\ dataMQ' = IF isInput
                         THEN dataMQ \o [i \in 1..moved |-> mNextCommand]
                         ELSE SubSeq(dataMQ, moved + 1, Len(dataMQ))
            /\ halDataDeviated' =
                 (halDataDeviated \/
                  IF isInput THEN dataMQ # <<>> \/ moved # r.fmqByteCount
                  ELSE moved < Len(dataMQ))
       /\ cmdMQ' = <<>>
       /\ replyMQ' = <<r>>
       /\ halDeviated' = (halDeviated \/ (driver = "default" /\ ~Conforms(r)))
       /\ halAcceptedInvalid' = (halAcceptedInvalid \/
                                 (driver = "invalid" /\ r.status # "BAD_VALUE"))
       /\ halPrevFrames' = r.frames
       /\ halIncrease' = (halIncrease \/
                          (halPrevFrames # NoFrames /\ r.frames > halPrevFrames))
       /\ halRetrograde' = (halRetrograde \/
                            (halPrevFrames # NoFrames /\ r.frames < halPrevFrames))
  /\ UNCHANGED <<isInput, driver, mCommands, driverVars, worker, pc, command,
                 acceptedReply>>

\* An input HAL writes more data after its reply, before the next command.
HalLateData ==
  /\ isInput /\ worker = "running" /\ mNextCommand > 0 /\ cmdMQ = <<>>
  /\ \E d \in 1..(DataMQBytes - Len(dataMQ)) :
       dataMQ' = dataMQ \o [i \in 1..d |-> mNextCommand]
  /\ halDataDeviated' = TRUE
  /\ UNCHANGED <<isInput, driver, mCommands, driverVars, worker, pc, command,
                 acceptedReply, cmdMQ, replyMQ, halDeviated, halPrevFrames,
                 halIncrease, halRetrograde, halAcceptedInvalid>>

-----------------------------------------------------------------------------

NoCommand == [code |-> "NONE", fmqByteCount |-> 0]

\* A test constructs one driver over its command list and one worker.
Init ==
  /\ isInput \in Directions
  /\ driver \in {"default", "invalid"}
  /\ mCommands \in IF driver = "default" THEN NamedSequences
                   ELSE {kInvalidCommands}
  /\ mNextCommand = 0
  /\ mPreviousFrames = NoFrames
  /\ mObservablePositionIncrease = FALSE
  /\ mRetrogradeObservablePosition = FALSE
  /\ mUnexpectedTransition = NoTransition
  /\ mStatuses = <<>>
  /\ worker = "running"
  /\ pc = "cycle"
  /\ command = NoCommand
  /\ acceptedReply = FALSE
  /\ cmdMQ = <<>> /\ replyMQ = <<>> /\ dataMQ = <<>>
  /\ halDeviated = FALSE /\ halDataDeviated = FALSE
  /\ halPrevFrames = NoFrames /\ halIncrease = FALSE /\ halRetrograde = FALSE
  /\ halAcceptedInvalid = FALSE

Worker ==
  /\ \/ StreamReaderLogicSend \/ StreamReaderLogicReceive
     \/ StreamReaderLogicReadData
     \/ StreamWriterLogicSend \/ StreamWriterLogicReceive
  /\ UNCHANGED isInput

Next == Worker \/ HalCycle \/ HalLateData

\* Both ends are dedicated threads blocked on their queues: the worker
\* thread runs until cycle() stops it, and the HAL's worker answers every
\* command (readBlocking has no timeout, so the test relies on it).
Spec == Init /\ [][Next]_vars /\ WF_vars(Worker) /\ WF_vars(HalCycle)

-----------------------------------------------------------------------------
(* Properties.                                                             *)

TypeOK ==
  /\ isInput \in BOOLEAN
  /\ driver \in {"default", "invalid"}
  /\ mNextCommand \in 0..Len(mCommands)
  /\ mPreviousFrames \in 0..MaxFrames \cup {NoFrames}
  /\ {mObservablePositionIncrease, mRetrogradeObservablePosition,
      acceptedReply} \subseteq BOOLEAN
  /\ worker \in {"running", "EXIT", "ABORT"}
  /\ pc \in {"cycle", "reply", "data"}
  /\ driver = "default" => command.fmqByteCount \in 0..BufferBytes
  /\ Len(cmdMQ) <= 1 /\ Len(replyMQ) <= 1
  /\ Len(dataMQ) <= DataMQBytes
  /\ \A i \in DOMAIN dataMQ : dataMQ[i] \in 1..Len(mCommands)

\* The verdict of RunStreamIoCommandsImplSeq1/2: no worker error, no
\* unexpected transition, the position advanced and never went back.
Passed ==
  /\ driver = "default" /\ worker = "EXIT"
  /\ mUnexpectedTransition = NoTransition
  /\ mObservablePositionIncrease /\ ~mRetrogradeObservablePosition

\* The verdict of SendInvalidCommandImpl: no unexpected statuses.
InvalidPassed == driver = "invalid" /\ worker # "running" /\ mStatuses = <<>>

\* The AudioStreamIo test passes only for a HAL that answered every
\* command of the sequence with OK, valid counts and the expected state,
\* and whose observable position advanced and never went back.
VerdictSound ==
  Passed => /\ mNextCommand = Len(mCommands)
            /\ ~halDeviated /\ halIncrease /\ ~halRetrograde

\* The AudioStreamIo test passes only if every cycle's data matched its
\* reply: an input HAL wrote exactly the bytes it reported, before its
\* reply; an output HAL consumed all data the writer put in the MQ.
DataVerdictSound == Passed => ~halDataDeviated

\* The HAL has, by now, done something the test must fail it for: for a
\* command sequence, a reply that did not conform, data that did not match
\* its reply, a position that went back, or a run that ended without the
\* position ever advancing; for the invalid commands, one not rejected
\* with BAD_VALUE.
HalFaulted ==
  IF driver = "default"
  THEN \/ halDeviated \/ halDataDeviated \/ halRetrograde
       \/ worker = "EXIT" /\ ~halIncrease
  ELSE halAcceptedInvalid

Termination == <>(worker # "running")

====
