CONSTANTS
  Directions = {TRUE, FALSE}
  BufferBytes = 2
  DataMQBytes = 2
  MaxFrames = 2
  NoFrames = NoFrames
  NoTransition = NoTransition
SPECIFICATION Spec
\* The worker thread ends with EXIT or ABORT and the HAL then waits for a
\* command forever: the system really stops.  Termination checks that it
\* stops only there.
CHECK_DEADLOCK FALSE
INVARIANT TypeOK
INVARIANT VerdictSound
 
PROPERTY Termination
