SPECIFICATION FormatsSpec
CHECK_DEADLOCK FALSE
INVARIANTS
    FramesArrive
    SidesAgree
    PatchRebuilds
    SignaturesAreExact
    DigestsAreExact
