\* Every option list, environment and short line, with the entry shapes.
CONSTANTS
    Argvs <- MCArgvs
    Json <- MCJson
    Envs <- MCEnvs
    Tree <- MCTree
    Contents <- MCContents
SPECIFICATION Spec
INVARIANTS LinesPreserved SimpleEntriesSet
CHECK_DEADLOCK FALSE
