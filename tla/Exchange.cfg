\* Bodies of up to two data frames through windows of one frame.
SPECIFICATION FairSpec
CONSTANTS
    Frames = 2
    Window = 1
INVARIANTS TypeOK ResponseWhole RequestWhole OneStatus ErrorHasCause
PROPERTIES DuplexNeverStalls NothingOutlivesBody
