--------------------------- MODULE MC_CoroutineSem ---------------------------
\* The example clients of cotests.c (module Cotests) on the pthread backend.
EXTENDS CoroutineSem, Cotests
=============================================================================
