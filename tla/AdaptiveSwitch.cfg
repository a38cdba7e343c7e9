CONSTANTS
    EvalLoop = eval
    ForceCallers = {force1}
    Drivers = {d1, d2}
    Loops = {l1, l2}
    None = none
    MaxFreezes = 1
    MaxCooldowns = 2
SPECIFICATION Spec
INVARIANTS DriverOnActive FrozenExact AtRest NoPingPong PortServed
