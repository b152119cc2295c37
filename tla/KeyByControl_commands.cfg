\* One terminal, every command.
CONSTANTS
    o1 = o1
    o2 = o2
    Nobody = Nobody
    Operators = {o1}
    Commands <- AllCommands
    MaxJobs = 3
SPECIFICATION Spec
INVARIANTS
    TypeOK
    StopsOnlyTheSoleJob
    RestoresWhatItCan
PROPERTIES
    OneWriter
    TransitionContinues
