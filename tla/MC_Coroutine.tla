---------------------------- MODULE MC_Coroutine ----------------------------
\* The example clients of cotests.c (module Cotests) on the native backend.
EXTENDS Coroutine, Cotests
=============================================================================
