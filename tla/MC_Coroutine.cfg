\* The cotests.c clients on the native backend.
CONSTANTS
    Root = Root
    Gen = Gen
    Triv = Triv
    NestB = NestB
    NestC = NestC
    Mirror = Mirror
    Led = Led
    Sink = Sink
    StarA = StarA
    StarB = StarB
    Coop = Coop
    Timing = Timing
    Coroutines <- MCCoroutines
    Prog <- MCProg
    MaxIter = 6

SPECIFICATION Spec

INVARIANT SingleDelivery
INVARIANT ContextIntegrity
INVARIANT NeverResumeDead
INVARIANT JoinedAtExit
INVARIANT NoUseAfterRelease
PROPERTY Termination
