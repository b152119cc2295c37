CONSTANTS
    Documents <- MCDocuments
SPECIFICATION Spec
INVARIANTS
    OneOfFourCategories
CHECK_DEADLOCK FALSE
