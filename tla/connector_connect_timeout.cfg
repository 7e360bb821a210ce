\* The default budget (-1) against a host that is unreachable: its connects
\* are refused or time out.
CONSTANTS
    Retries <- MCUnbounded
    Errors <- MCRefusedOrTimeout
    MaxCount = 5
SPECIFICATION Spec
PROPERTIES UnboundedReturns
