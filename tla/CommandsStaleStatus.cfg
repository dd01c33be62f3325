\* A status that an earlier call gave up waiting for.
SPECIFICATION Spec
CONSTANTS
    Names <- OneName
    Default = "Helios"
    Erased = "erased"
    Banks = 2
INVARIANT
    StatusIsCurrent
