SPECIFICATION Spec
CONSTANTS
    Inputs <- MCInputs
    Builtin = {"uint"}
    Control <- MCControl
    Crc <- MCCrc
    Unset = Unset
    RecursionLimit = 6
INVARIANTS ServicesInContext Flattened AcceptsSound
PROPERTY PassesEnd
CHECK_DEADLOCK FALSE
