CONSTANTS
    Documents <- MCDocuments
SPECIFICATION Spec
INVARIANTS
    RowsFitTheTable
    CategoryIsDeserved
CHECK_DEADLOCK FALSE
