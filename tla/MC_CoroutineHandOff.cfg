\* A parent blocked in from() resumed by the child's coroutine_switch.
CONSTANTS
    Root = Root
    Child = Child
    Coroutines = {Root, Child}
    Prog <- MCProg
    MaxIter = 2

SPECIFICATION Spec

INVARIANT SingleDelivery
