CONSTANTS
    EvalLoop = eval
    ForceCallers = {}
    Drivers = {}
    Loops = {l1}
    None = none
    MaxFreezes = 1
    MaxCooldowns = 0
SPECIFICATION Spec
PROPERTIES FreezeHolds
