SPECIFICATION Spec
CONSTANTS
    Values <- MCValues
    Nesting <- MCNesting
    Repositories <- MCRepositories
    Bodies <- MCBodies
    PythonText <- MCPythonText
    GoText <- MCGoText
    GoLimit = 100
INVARIANTS
    GeneratedPass
    SuccessMeansCurrent
    TextIdentifiesBody
CHECK_DEADLOCK FALSE
