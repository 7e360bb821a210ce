\* A budget past the loop's warning threshold (count == 10), against an
\* unreachable host whose connects are refused or time out.
CONSTANTS
    Retries = 16
    Errors <- MCRefusedOrTimeout
    MaxCount = 18
SPECIFICATION Spec
INVARIANTS BudgetRespected
