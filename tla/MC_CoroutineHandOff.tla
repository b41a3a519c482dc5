------------------------- MODULE MC_CoroutineHandOff -------------------------
(***************************************************************************)
(* A generator that, besides yielding data, hands control back with        *)
(* coroutine_switch (as cotone.c's yield_sample does when its buffer is    *)
(* full), read by a parent that loops over from() as consumer() does.      *)
(***************************************************************************)
EXTENDS Coroutine

CONSTANTS Child

\* The child: yield a datum or hand off without one, some number of times.
HandOffChild ==
    <<ILoop(7), IBranch({3, 5}), IYield(Child), IGoto(1), ISwitch(Child), IGoto(1), IReturn>>

\* The parent: consumer()'s loop over from(child).
HandOffParent == <<ICreate(Child, TRUE), IFrom(Child, 4), IGoto(2), IReturn>>

MCProg == [c \in {Root, Child} |-> IF c = Root THEN HandOffParent ELSE HandOffChild]
=============================================================================
