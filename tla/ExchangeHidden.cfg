\* The forwarder's failed write hides the status of the service.
SPECIFICATION Spec
CONSTANTS
    Frames = 2
    Window = 1
INVARIANTS StatusNotHidden
