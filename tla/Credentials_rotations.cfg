\* Three rotations after the first password, or two in a lab that kept its volumes.
CONSTANTS
    MaxPasswords = 4
SPECIFICATION Spec
INVARIANTS
    TypeOK
    CanAuthenticate
PROPERTIES
    FailureRestores
    RotationHeals
