------------------------------ MODULE MC_CoTone ------------------------------
\* cotone.c's callback and tone generator, with short tones and silences.
EXTENDS CoTone

\* tone(), silence(), tone(), silence() scaled down from 2755, 5512, 2757 and
\* 22050 samples, keeping the second silence the longest.
MCSegLen == <<2, 1, 2, 3>>
=============================================================================
