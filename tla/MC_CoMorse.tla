------------------------------ MODULE MC_CoMorse ------------------------------
\* comorse.c with short sentences over the characters MorseTable covers.
EXTENDS CoMorse

\* "test" (no argument), "", "E t" (lower case and a space), "s#" (a
\* character morsetable has no entry for).
MCSentences == { <<116, 101, 115, 116>>, <<>>, <<69, 32, 116>>, <<115, 35>> }

\* "é" in UTF-8: two bytes at or above 128.
MCAccented == { <<195, 169>> }
=============================================================================
