\* cotone.c's callback and tone generator on the native backend.
CONSTANTS
    SizeofFloat = 4
    FirstLenBytes = {4, 12}
    LenBytes = {0, 6, 8, 12}
    SegLen <- MCSegLen
    MaxCalls = 4
    MaxSamples = 12

SPECIFICATION Spec

INVARIANT TypeOK
INVARIANT BufferExact
PROPERTY CallbackReturns
