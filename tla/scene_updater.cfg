SPECIFICATION Spec
CONSTANTS
    Tiles = {t1, t2, t3}
    HOME = t1
    LoopTiles = 1
    MaxCalls = 5
    MaxFailures = 1
INVARIANTS
    LitWasSeen
    SignsAgree
PROPERTIES
    SceneFollows
