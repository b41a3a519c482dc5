\* comorse.c with ASCII sentences (the same on either char signedness).
CONSTANTS
    Sentences <- MCSentences
    CharSigned = TRUE
    NotFilled = NotFilled
    Junk = Junk

SPECIFICATION Spec

INVARIANT MorseOutput
PROPERTY MorseEnds
