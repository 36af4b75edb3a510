----------------------------- MODULE StreamRace -----------------------------
(***************************************************************************)
(* StreamIn / StreamOut of the default audio HAL                           *)
(* (src/audio/aidl/default/Stream.cpp): close() and updateMetadata() of    *)
(* one stream object, called by the threads of the binder thread pool.    *)
(*                                                                         *)
(* Neither method takes a lock.  Each tests mIsClosed and then, on the     *)
(* path where the stream is open, assigns: the test and the assignment are *)
(* two steps, and another thread's call may run between them.  The two    *)
(* classes have the same code; one object is modelled.                     *)
(***************************************************************************)
EXTENDS Naturals, FiniteSets

CONSTANTS
  Threads,       \* binder threads calling into the stream
  Metadata,      \* SinkMetadata / SourceMetadata values
  InitMetadata,  \* the metadata the stream was constructed with
  MaxCalls       \* bound on the calls each thread makes

ASSUME InitMetadata \in Metadata /\ MaxCalls \in Nat

VARIABLES
  mIsClosed,   \* Stream::mIsClosed
  mMetadata,   \* Stream::mMetadata
  pc,          \* thread -> "idle", or the assignment its call is about to make
  arg,         \* thread -> the metadata its updateMetadata call carries
  status,      \* thread -> status its last call returned ("none" before any)
  calls,       \* thread -> calls made so far
  closeOks,    \* close() calls that returned OK
  succeededAfterClose  \* a close() or an assignment of mMetadata succeeded
                       \* after a close() had returned OK

vars == <<mIsClosed, mMetadata, pc, arg, status, calls, closeOks,
          succeededAfterClose>>

Init ==
  /\ mIsClosed = FALSE
  /\ mMetadata = InitMetadata
  /\ pc = [t \in Threads |-> "idle"]
  /\ arg = [t \in Threads |-> InitMetadata]
  /\ status = [t \in Threads |-> "none"]
  /\ calls = [t \in Threads |-> 0]
  /\ closeOks = 0
  /\ succeededAfterClose = FALSE

\* A thread enters one of the methods.
Call(t) ==
  /\ pc[t] = "idle"
  /\ calls[t] < MaxCalls
  /\ calls' = [calls EXCEPT ![t] = @ + 1]

\* Mutant: the error return carries another exception code.
RejectedIllegalArgument(t) ==
  /\ status' = [status EXCEPT ![t] = "ILLEGAL_ARGUMENT"]
  /\ UNCHANGED <<pc, arg>>

\* The else branch of both methods: the stream was closed.
Rejected(t) ==
  /\ status' = [status EXCEPT ![t] = "ILLEGAL_STATE"]
  /\ UNCHANGED <<pc, arg>>

\* close(): 'if (!mIsClosed)', and the error return when it is set.
closeTest(t) ==
  /\ Call(t)
  /\ IF ~mIsClosed THEN pc' = [pc EXCEPT ![t] = "close"] /\ UNCHANGED <<arg, status>>
     ELSE Rejected(t)
  /\ UNCHANGED <<mIsClosed, mMetadata, closeOks, succeededAfterClose>>

\* close(): 'mIsClosed = true; return ok()'.
closeSet(t) ==
  /\ pc[t] = "close"
  /\ mIsClosed' = TRUE
  /\ status' = [status EXCEPT ![t] = "OK"]
  /\ closeOks' = closeOks + 1
  /\ succeededAfterClose' = (succeededAfterClose \/ closeOks > 0)
  /\ pc' = [pc EXCEPT ![t] = "idle"]
  /\ UNCHANGED <<mMetadata, arg, calls>>

\* updateMetadata(in_metadata): 'if (!mIsClosed)', and the error return.
updateMetadataTest(t, md) ==
  /\ Call(t)
  /\ IF ~mIsClosed
     THEN /\ pc' = [pc EXCEPT ![t] = "update"]
          /\ arg' = [arg EXCEPT ![t] = md]
          /\ UNCHANGED status
     ELSE Rejected(t)
  /\ UNCHANGED <<mIsClosed, mMetadata, closeOks, succeededAfterClose>>

\* updateMetadata(in_metadata): 'mMetadata = in_metadata; return ok()'.
updateMetadataSet(t) ==
  /\ pc[t] = "update"
  /\ mMetadata' = arg[t]
  /\ status' = [status EXCEPT ![t] = "OK"]
  /\ succeededAfterClose' = (succeededAfterClose \/ closeOks > 0)
  /\ pc' = [pc EXCEPT ![t] = "idle"]
  /\ UNCHANGED <<mIsClosed, arg, calls, closeOks>>

Next ==
  \E t \in Threads :
    \/ closeTest(t) \/ closeSet(t)
    \/ \E md \in Metadata : updateMetadataTest(t, md)
    \/ updateMetadataSet(t)

Spec == Init /\ [][Next]_vars

-----------------------------------------------------------------------------

TypeOK ==
  /\ mIsClosed \in BOOLEAN
  /\ mMetadata \in Metadata
  /\ pc \in [Threads -> {"idle", "close", "update"}]
  /\ arg \in [Threads -> Metadata]
  /\ status \in [Threads -> {"none", "OK", "ILLEGAL_STATE"}]
  /\ calls \in [Threads -> 0..MaxCalls]
  /\ closeOks \in 0..(Cardinality(Threads) * MaxCalls)
  /\ succeededAfterClose \in BOOLEAN

\* Once close() has returned OK the stream is closed for every caller: a
\* later close() fails with ILLEGAL_STATE (the contract CloseTwice tests)
\* and a later updateMetadata() no longer changes the metadata.
NothingSucceedsAfterClose == ~succeededAfterClose

=============================================================================
