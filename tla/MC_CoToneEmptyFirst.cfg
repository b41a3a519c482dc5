\* A first callback whose buffer holds less than one float.
CONSTANTS
    SizeofFloat = 4
    FirstLenBytes = {0, 4}
    LenBytes = {0, 6, 8, 12}
    SegLen <- MCSegLen
    MaxCalls = 4
    MaxSamples = 12

SPECIFICATION Spec

INVARIANT BufferExact
