SPECIFICATION Spec
CONSTANTS
    AutoNames <- Names
    UNKNOWN = 1000
    RAW = 1001
    Formats <- MCFormats
    Templates <- MCTemplates
    Inputs <- MCInputs
INVARIANTS FieldsAreSpans ValueIsItsText
PROPERTIES TakesItsSize Finishes
CHECK_DEADLOCK FALSE
