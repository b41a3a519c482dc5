------------------------ MODULE MC_CoroutineUcontext ------------------------
\* The example clients of cotests.c (module Cotests) on the ucontext backend.
EXTENDS CoroutineUcontext, Cotests
=============================================================================
