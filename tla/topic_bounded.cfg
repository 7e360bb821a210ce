\* Two managers with no retry budget against an IceStorm host whose
\* connects are refused or time out: the lookup itself may fail.
CONSTANTS
    m1 = m1
    m2 = m2
    Procs <- MCProcs
    Retries = 0
    Errors <- MCRefusedOrTimeout
    MaxRestarts = 1
SPECIFICATION Spec
INVARIANTS Converged
PROPERTIES DanceTerminates
