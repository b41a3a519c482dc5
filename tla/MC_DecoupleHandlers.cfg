\* The Cortex-M interrupt-stack switch, with interrupts before, during and after it.
CONSTANTS
    SP0 = 1000
    HandlerBase = 2048
    Controls = {0, 4}
    PspInit = {0, 500}
    ThreadUse = 64
    HandlerUse = 48
    MaxIrq = 3
    MaxNest = 2

SPECIFICATION Spec

INVARIANT ThreadStackContinuity
INVARIANT ControlPreserved
 
