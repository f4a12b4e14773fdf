CONSTANTS
    Width = 8
    MaxAge = 5
    Nows = {100, 120}
SPECIFICATION Spec
INVARIANT WindowExact
