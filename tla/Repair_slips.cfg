\* Files of two to five lines; a file of n lines is spoilt in 6 - n ways.
CONSTANTS
    Meant <- MCFiles
    MaxIndent = 3
    MaxSize = 6
SPECIFICATION RepairSpec
INVARIANTS ColonsRestored BodiesRestored BodyMovesTogether
PROPERTIES OnlyAppliedGo
CHECK_DEADLOCK FALSE
