\* The cotests.c clients on the pthread semaphore backend.
CONSTANTS
    Root = Root
    Gen = Gen
    Triv = Triv
    NestB = NestB
    NestC = NestC
    Mirror = Mirror
    Led = Led
    Sink = Sink
    StarA = StarA
    StarB = StarB
    Coop = Coop
    Timing = Timing
    Coroutines <- MCCoroutines
    Prog <- MCProg
    MaxIter = 6
    MaxThreads = 2

SPECIFICATION SpecTL

PROPERTY CreateCompletes

\* A thread blocked for good in sem_wait is what the run is about.
CHECK_DEADLOCK FALSE
