\* The default budget (-1) against a registry that refuses connections
\* while it is down; count is capped at MaxCount by the model only.
CONSTANTS
    Retries <- MCUnbounded
    Errors <- MCRefusedOnly
    MaxCount = 25
SPECIFICATION Spec
INVARIANTS BudgetRespected
PROPERTIES EventuallyConnected
