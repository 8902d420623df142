SPECIFICATION Spec
CONSTANTS
    Base = 2
    MaxNodes = 3
    MaxLen = 3
    Bytes = {b1, b2}
    Junk = junk
    Unset = unset
    Width = 6
    Group = 2
    LengthBits = 3
    Lengths = {0, 1, 7}
SYMMETRY Symmetry
INVARIANTS
    CursorAgrees
    ReadsBack
    RoundTrip
