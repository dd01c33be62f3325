\* One name beside the default one; two banks, as the endpoint has.
SPECIFICATION FairSpec
CONSTANTS
    Names <- OneName
    Default = "Helios"
    Erased = "erased"
    Banks = 2
INVARIANTS
    AnswerRecent
    CleanCallCurrent
    NeverNameless
PROPERTIES
    NamePersists
    NameStored
