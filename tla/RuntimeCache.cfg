CONSTANTS
    Proc = {p1, p2, p3}
    Key = {native, baseline}
    Builds <- MC_Builds
    Compilers = {TRUE, FALSE}
SPECIFICATION Spec
INVARIANTS  PublishLosesOnlyToReject
PROPERTIES ObjectsAreReused SoundStaysSound EveryBuildEnds
