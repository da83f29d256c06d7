\* A request that fails half way, at a server that cannot tell.
SPECIFICATION Spec
CONSTANTS
    Frames = 2
    Window = 1
INVARIANTS CleanRequestComplete
