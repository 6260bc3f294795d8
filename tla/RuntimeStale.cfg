SPECIFICATION Spec
CONSTANTS
    Requests = {r1}
    MaxVersion = 2
    MaxGeneration = 2
    Large = {FALSE}
    CanFail = FALSE
INVARIANT FindsCurrent
