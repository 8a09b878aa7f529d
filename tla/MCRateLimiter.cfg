SPECIFICATION Spec
CONSTANTS
    Handlers = {h1, h2}
    Keys = {ip1, ip2}
    Limit = 2
    Window = 3
    MaxStall = 1
    MaxTime = 4
    None = None
INVARIANTS TypeOK AdmissionsFitWindows OverlapIsWait
PROPERTIES DenialJustified DropsOnlyClosed
SYMMETRY Symmetry
