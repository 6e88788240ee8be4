\* Files of up to three statements, and up to three commits that fix them.
CONSTANTS
    Params <- MCParams
    Files <- MCFiles
    Inputs <- MCInputs
    MaxCommits = 3
SPECIFICATION Spec
INVARIANTS StillParses FixesOnlyRaise CriticalIsCertain
PROPERTIES GuardsAreRecognised
CHECK_DEADLOCK FALSE
