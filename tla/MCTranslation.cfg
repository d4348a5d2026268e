SPECIFICATION FairSpec
CONSTANTS
    WIDTH = 4
    OFFSETS = 10
    PACKAGE = 80
    BYTE = 4
    post_keys <- MCpost_keys
    Forms <- MCForms
    Behind <- MCBehind
    Builds = {"serial", "sse4"}
    HashLengths = {1, 9, 10, 99, 100}
    Ids = {7}
INVARIANTS
    PackageRight
    NeighboursRestored
    StaysInBounds
    ResponseRight
PROPERTIES
    Translated
CHECK_DEADLOCK FALSE
