SPECIFICATION Spec
CONSTANTS
    v1 = v1
    v2 = v2
    v3 = v3
    b1 = b1
    b2 = b2
    Var = {v1, v2, v3}
    Buffer = {b1, b2}
    EmptyICS = EmptyICS
    NoICS = NoICS
    NoText = NoText
    Text <- MCText
    Word <- MCWord
    Char <- MCChar
    Recoding <- MCRecoding
    MaxRefs = 3
SYMMETRY Symmetry
VIEW View
INVARIANTS
    TypeOK
    CountsHandles
PROPERTIES
    LeaksOnlyBySharedAssignment
    ValueSemantics
CHECK_DEADLOCK FALSE
