CONSTANTS
    IntBits = 16
    Slice = 7
    MaxScripts = 2
    MaxLines = 2
    Scripts <- MCScripts
    Probes <- MCProbes
    Compiled <- CompileForEvaluation
    Laws <- MCLaws
SPECIFICATION Spec
INVARIANTS Chained Tidy
PROPERTIES Implements Ends
CHECK_DEADLOCK FALSE
