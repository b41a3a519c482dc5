----------------------- MODULE MC_CoroutineSemThreadLimit -----------------------
\* The cotests.c clients on the semaphore backend with a thread limit.
EXTENDS CoroutineSemThreadLimit, Cotests
=============================================================================
