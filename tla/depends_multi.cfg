\* The same inputs: is every assignment of a package rewritten as meant?
CONSTANTS
    Argvs <- MCArgvs
    Json <- MCJson
    Envs <- MCEnvs
    Tree <- MCTree
    Contents <- MCContents
SPECIFICATION Spec
INVARIANTS RewriteAsIntended
CHECK_DEADLOCK FALSE
