\* Every argv shape, the default budget, a registry that refuses while down.
CONSTANTS
    n1 = n1
    n2 = n2
    Retries <- MCUnbounded
    Errors <- MCRefusedOnly
    MaxCount = 2
    Names <- MCNames
    MaxServices = 2
    ConfigArgs <- MCAllArgs
    BackgroundAdd = FALSE
SPECIFICATION Spec
INVARIANTS ReadableConfigLoaded
