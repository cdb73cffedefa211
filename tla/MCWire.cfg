SPECIFICATION Spec
CONSTANTS
    Calls = {c1, c2}
    Frames = {f1, f2}
    Sent <- MCSent
    Received <- MCReceived
    MaxLen = 2
    None = None
INVARIANTS FramesOwned EncodedOwn DecodedOwn InfoConfirmed
SYMMETRY Symmetry
