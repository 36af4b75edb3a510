------------------------------ MODULE NNExecute ------------------------------
(***************************************************************************)
(* Execute() of the NN 1.0 generated test harness                          *)
(* (src/neuralnetworks/1.0/vts/functional/GeneratedTestHarness.cpp): ask  *)
(* the service which operations it supports, prepare the model, and for    *)
(* each example lay the operands out in an input and an output pool, copy  *)
(* the inputs in, execute, and copy the outputs back.                      *)
(*                                                                         *)
(* An example's operands are listed in the order for_all visits them (the  *)
(* float, int32 and quant8 maps, each by index) as [index, size] records,  *)
(* size in bytes.  Each iteration of the layout loops is a step.  The      *)
(* sums inputSize and outputSize are uint32_t: they are taken modulo       *)
(* 2^UintBits, with UintBits the width of uint32_t scaled down; offsets    *)
(* are size_t and do not wrap.  The service's answers are chosen freely.   *)
(***************************************************************************)
EXTENDS Integers, Sequences

CONSTANTS
  Examples,  \* the candidate example lists (each a Seq of [inputs, golden])
  UintBits   \* width of uint32_t, scaled

ASSUME UintBits \in Nat

Statuses == {"NONE", "GENERAL_FAILURE"}
Uint(x) == x % (2^UintBits)

\* A RequestArgument as the harness fills it; NoArg is the default one that
\* resize() adds for an index no operand has.
NoArg == [hasNoValue |-> FALSE, offset |-> 0, length |-> 0]

VARIABLES
  examples,      \* the list of examples of this test
  pc,            \* where Execute is
  fully,         \* fullySupportsModel
  e,             \* the example being run (example_no)
  k,             \* the iteration of the loop at pc
  inputs_info, outputs_info,
  inputSize, outputSize,  \* uint32_t sums
  offset,        \* the size_t offset of the offset loops
  failed,        \* a gtest failure (fatal or not) has been recorded
  serviceFault,  \* the service has given a wrong or failing answer
  outOfPool      \* a copy wrote or read outside its pool

vars == <<examples, pc, fully, e, k, inputs_info, outputs_info, inputSize,
          outputSize, offset, failed, serviceFault, outOfPool>>

Ex == examples[e]

Init ==
  /\ examples \in Examples
  /\ pc = "supported"
  /\ fully = FALSE
  /\ e = 1 /\ k = 1
  /\ inputs_info = <<>> /\ outputs_info = <<>>
  /\ inputSize = 0 /\ outputSize = 0 /\ offset = 0
  /\ failed = FALSE /\ serviceFault = FALSE /\ outOfPool = FALSE

Goto(p) == pc' = p /\ k' = 1

\* A failed ASSERT in Execute itself returns from the test.
AssertFails == failed' = TRUE /\ pc' = "done" /\ UNCHANGED k

Fault(cond) == serviceFault' = (serviceFault \/ cond)

Resize(s, n) ==
  IF Len(s) >= n THEN s ELSE s \o [j \in 1..(n - Len(s)) |-> NoArg]

\* getSupportedOperations.  The ASSERTs of the callback only return from
\* the callback: fullySupportsModel then stays false and Execute goes on.
getSupportedOperations ==
  /\ pc = "supported"
  /\ \E status \in Statuses, all \in BOOLEAN :
       /\ fully' = (status = "NONE" /\ all)
       /\ failed' = (status # "NONE")
       /\ Fault(status # "NONE")
  /\ Goto("prepare")
  /\ UNCHANGED <<examples, e, inputs_info, outputs_info, inputSize, outputSize,
                 offset, outOfPool>>

\* prepareModel; ASSERT_EQ(NONE, launch status).
prepareModel ==
  /\ pc = "prepare"
  /\ \E launch \in Statuses :
       /\ Fault(launch # "NONE")
       /\ IF launch = "NONE" THEN Goto("wait") /\ UNCHANGED failed ELSE AssertFails
  /\ UNCHANGED <<examples, fully, e, inputs_info, outputs_info, inputSize,
                 outputSize, offset, outOfPool>>

\* Mutant: the test ends early when either condition holds.
EarlyTerminationEither(fullySupportsModel, prepareReturnStatus) ==
  ~fullySupportsModel \/ prepareReturnStatus # "NONE"

\* 'if (!fullySupportsModel && prepareReturnStatus != ErrorStatus::NONE)'
EarlyTermination(fullySupportsModel, prepareReturnStatus) ==
  ~fullySupportsModel /\ prepareReturnStatus # "NONE"

\* preparedModelCallback->wait(), and the early termination of a service
\* that cannot prepare a model it does not fully support.  A service that
\* reports NONE without a model, or a failure with one, or a failure for
\* a model it fully supports, is at fault.
waitPrepared ==
  /\ pc = "wait"
  /\ \E status \in Statuses, nonNull \in BOOLEAN :
       /\ Fault((status = "NONE") # nonNull \/ (status # "NONE" /\ fully))
       /\ IF EarlyTermination(fully, status)
          THEN IF nonNull THEN AssertFails
               ELSE pc' = "done" /\ UNCHANGED <<k, failed>>
          ELSE IF ~nonNull THEN AssertFails
          ELSE /\ failed' = (failed \/ status # "NONE")
               /\ Goto("inputs")
  /\ UNCHANGED <<examples, fully, e, inputs_info, outputs_info, inputSize,
                 outputSize, offset, outOfPool>>

\* The loop over the inputs: an operand of size 0 has no value.
inputsInfo ==
  /\ pc = "inputs"
  /\ IF k <= Len(Ex.inputs)
     THEN LET op == Ex.inputs[k]
              arg == IF op.size # 0
                     THEN [hasNoValue |-> FALSE, offset |-> 0, length |-> Uint(op.size)]
                     ELSE [hasNoValue |-> TRUE, offset |-> 0, length |-> 0]
          IN  /\ inputs_info' = [Resize(inputs_info, op.index + 1) EXCEPT ![op.index + 1] = arg]
              /\ inputSize' = Uint(inputSize + op.size)
              /\ k' = k + 1 /\ UNCHANGED <<pc, offset>>
     ELSE Goto("inoffsets") /\ offset' = 0 /\ UNCHANGED <<inputs_info, inputSize>>
  /\ UNCHANGED <<examples, fully, e, outputs_info, outputSize, failed,
                 serviceFault, outOfPool>>

\* Mutant: the offset is advanced before it is assigned.
OffsetStepAfterAdvance(info, off) ==
  [arg |-> [info EXCEPT !.offset = off + info.length], next |-> off + info.length]

\* One iteration of an offset loop: 'i.location.offset = offset;
\* offset += i.location.length;' (the input loop skips the assignment for
\* an argument that has no value).
OffsetStep(info, off) ==
  [arg |-> IF info.hasNoValue THEN info ELSE [info EXCEPT !.offset = off],
   next |-> off + info.length]

inputOffsets ==
  /\ pc = "inoffsets"
  /\ IF k <= Len(inputs_info)
     THEN LET r == OffsetStep(inputs_info[k], offset)
          IN  /\ inputs_info' = [inputs_info EXCEPT ![k] = r.arg]
              /\ offset' = r.next
              /\ k' = k + 1 /\ UNCHANGED pc
     ELSE Goto("outputs") /\ UNCHANGED <<inputs_info, offset>>
  /\ UNCHANGED <<examples, fully, e, outputs_info, inputSize, outputSize,
                 failed, serviceFault, outOfPool>>

\* The loop over the golden outputs.
outputsInfo ==
  /\ pc = "outputs"
  /\ IF k <= Len(Ex.golden)
     THEN LET op == Ex.golden[k]
              arg == [hasNoValue |-> FALSE, offset |-> 0, length |-> Uint(op.size)]
          IN  /\ outputs_info' = [Resize(outputs_info, op.index + 1) EXCEPT ![op.index + 1] = arg]
              /\ outputSize' = Uint(outputSize + op.size)
              /\ k' = k + 1 /\ UNCHANGED <<pc, offset>>
     ELSE Goto("outoffsets") /\ offset' = 0 /\ UNCHANGED <<outputs_info, outputSize>>
  /\ UNCHANGED <<examples, fully, e, inputs_info, inputSize, failed,
                 serviceFault, outOfPool>>

outputOffsets ==
  /\ pc = "outoffsets"
  /\ IF k <= Len(outputs_info)
     THEN LET r == OffsetStep(outputs_info[k], offset)
          IN  /\ outputs_info' = [outputs_info EXCEPT ![k] = r.arg]
              /\ offset' = r.next
              /\ k' = k + 1 /\ UNCHANGED pc
     ELSE Goto("pools") /\ UNCHANGED <<outputs_info, offset>>
  /\ UNCHANGED <<examples, fully, e, inputs_info, inputSize, outputSize,
                 failed, serviceFault, outOfPool>>

\* allocateSharedMemory(inputSize), allocateSharedMemory(outputSize), and
\* the ASSERTs that neither pool is empty.  Mapping the pools is assumed
\* to succeed.
allocatePools ==
  /\ pc = "pools"
  /\ IF inputSize = 0 \/ outputSize = 0 THEN AssertFails
     ELSE Goto("copy") /\ UNCHANGED failed
  /\ UNCHANGED <<examples, fully, e, inputs_info, outputs_info, inputSize,
                 outputSize, offset, serviceFault, outOfPool>>

\* The loop that copies each input's bytes to its offset in the pool.
copyInputs ==
  /\ pc = "copy"
  /\ IF k <= Len(Ex.inputs)
     THEN LET op == Ex.inputs[k]
          IN  /\ outOfPool' = (outOfPool \/ inputs_info[op.index + 1].offset + op.size > inputSize)
              /\ k' = k + 1 /\ UNCHANGED pc
     ELSE Goto("execute") /\ UNCHANGED outOfPool
  /\ UNCHANGED <<examples, fully, e, inputs_info, outputs_info, inputSize,
                 outputSize, offset, failed, serviceFault>>

\* execute, executionCallback->wait(), and the two EXPECT_EQ(NONE, ...).
execute ==
  /\ pc = "execute"
  /\ \E launch, status \in Statuses :
       /\ failed' = (failed \/ launch # "NONE" \/ status # "NONE")
       /\ Fault(launch # "NONE" \/ status # "NONE")
  /\ Goto("copyback")
  /\ UNCHANGED <<examples, fully, e, inputs_info, outputs_info, inputSize,
                 outputSize, offset, outOfPool>>

\* copy_back: for each output, ASSERT_EQ(m.size(), length / sizeof(T)),
\* which returns from the lambda only, then memcpy from its offset.
copyBack ==
  /\ pc = "copyback"
  /\ IF k <= Len(Ex.golden)
     THEN LET op == Ex.golden[k]
              loc == outputs_info[op.index + 1]
          IN  IF op.size \div op.elem # loc.length \div op.elem
              THEN failed' = TRUE /\ UNCHANGED outOfPool
              ELSE /\ outOfPool' = (outOfPool \/ loc.offset + loc.length > outputSize)
                   /\ UNCHANGED failed
     ELSE UNCHANGED <<failed, outOfPool>>
  /\ IF k <= Len(Ex.golden) THEN k' = k + 1 /\ UNCHANGED pc ELSE Goto("compare")
  /\ UNCHANGED <<examples, fully, e, inputs_info, outputs_info, inputSize,
                 outputSize, offset, serviceFault>>

\* compare(filtered_golden, filtered_test), then the next example with
\* fresh request arguments and sums.
compare ==
  /\ pc = "compare"
  /\ \E correct \in BOOLEAN :
       /\ failed' = (failed \/ ~correct)
       /\ Fault(~correct)
  /\ IF e < Len(examples)
     THEN /\ e' = e + 1 /\ Goto("inputs")
          /\ inputs_info' = <<>> /\ outputs_info' = <<>>
          /\ inputSize' = 0 /\ outputSize' = 0
     ELSE /\ pc' = "done"
          /\ UNCHANGED <<k, e, inputs_info, outputs_info, inputSize, outputSize>>
  /\ UNCHANGED <<examples, fully, offset, outOfPool>>

Next ==
  \/ getSupportedOperations \/ prepareModel \/ waitPrepared
  \/ inputsInfo \/ inputOffsets \/ outputsInfo \/ outputOffsets
  \/ allocatePools \/ copyInputs \/ execute \/ copyBack \/ compare

Spec == Init /\ [][Next]_vars

-----------------------------------------------------------------------------

\* When Execute returns and no gtest failure was recorded, the service
\* answered every call correctly: the only way out without running the
\* examples is a service that said it does not fully support the model
\* and then could not prepare it.
VerdictSound == (pc = "done" /\ ~failed) => ~serviceFault

\* Every input copied into the input pool, and every output copied back
\* from the output pool, lies inside its pool.
OperandsInPools == ~outOfPool

=============================================================================
