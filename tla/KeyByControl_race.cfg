\* Two terminals: a submission while another rebuilds.
CONSTANTS
    o1 = o1
    o2 = o2
    Nobody = Nobody
    Operators = {o1, o2}
    Commands <- Rebuilders
    MaxJobs = 2
SPECIFICATION Spec
PROPERTIES
    RebuildsOnlyIdle
