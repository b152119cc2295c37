\* One terminal: a deploy after a change of the sources.
CONSTANTS
    o1 = o1
    o2 = o2
    Nobody = Nobody
    Operators = {o1}
    Commands <- Deployers
    MaxJobs = 2
SPECIFICATION Spec
PROPERTIES
    DeployKeepsJobs
