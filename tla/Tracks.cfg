\* Up to two objects of two classes in a frame, on three places.
SPECIFICATION Spec
CONSTANTS
    Places <- ThreePlaces
    Classes <- TwoClasses
    MaxMatch = 1
    MaxMissed = 2
    MaxSeen = 2
    MaxId = 4
INVARIANTS
    OneIdEach
    IdKeepsClass
    ForgottenInTime
PROPERTY
    LoneObjectKeepsId
