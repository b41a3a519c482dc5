\* comorse.c built with signed char, given a sentence with a non-ASCII letter.
CONSTANTS
    Sentences <- MCAccented
    CharSigned = TRUE
    NotFilled = NotFilled
    Junk = Junk

SPECIFICATION Spec

INVARIANT MorseOutput
