--------------------------- MODULE MC_CoroutineCond ---------------------------
\* The example clients of cotests.c (module Cotests) on the condition-variable backend.
EXTENDS CoroutineCond, Cotests
=============================================================================
