------------------------------- MODULE Cotests -------------------------------
(***************************************************************************)
(* The example clients of cotests.c as programs over coroutine.h.  Root is *)
(* main(): it runs one of the test functions (each test leaves no channel  *)
(* behind, so one test per behaviour covers what running them in sequence  *)
(* does).  Every child coroutine of the tests has its own name.  Loops     *)
(* whose exit depends on data (how many numbers a generator yields, how    *)
(* many strings the parent sends) are "loop" instructions, so every count  *)
(* up to MaxIter is checked, not only the one the test hard-codes.         *)
(***************************************************************************)
EXTENDS CoroutineProgram

CONSTANTS Gen, Triv, NestB, NestC, Mirror, Led, Sink, StarA, StarB, Coop, Timing

\* Move the jump targets of a program that is placed after k instructions.
Shift(p, k) ==
    [i \in DOMAIN p |->
        IF p[i].op \in {"loop", "goto", "from"} THEN [p[i] EXCEPT !.to = @ + k]
        ELSE p[i]]

\* generator / generator_silent: yield a number per turn of the loop, then return.
GeneratorChild(self) == <<ILoop(4), IYield(self), IGoto(1), IReturn>>

\* consumer / consumer_silent: loop over from(child) until it returns NULL.
Consumer(child, alloc) == <<ICreate(child, alloc), IFrom(child, 4), IGoto(2), IReturn>>

\* generator_trivial: returns at once.
GeneratorTrivial == <<IReturn>>

\* nested_generator_b: child of a, parent of c; passes on each number it takes.
NestedB == <<ICreate(NestC, TRUE), IFrom(NestC, 5), IYield(NestB), IGoto(2), IReturn>>

\* mirror: answer each string from the parent until it sends NULL.
MirrorChild == <<IFrom(Mirror, 4), IYield(Mirror), IGoto(1), IReturn>>

\* two_way_example: send, take the answer (unchecked), then close_and_join.
TwoWayParent ==
    <<ICreate(Mirror, TRUE), ILoop(6), IYield(Mirror), IFrom(Mirror, 5), IGoto(2),
      IClose(Mirror), IReturn>>

\* another_mirror: the child sends each string and takes the parent's answer.
AnotherMirror == <<ILoop(5), IYield(Led), IFrom(Led, 4), IGoto(1), IReturn>>

\* another_two_way_example: answer each string until from() returns NULL.
AnotherTwoWayParent == <<ICreate(Led, TRUE), IFrom(Led, 5), IYield(Led), IGoto(2), IReturn>>

\* child_consumer_trivial: while (from(parent)); return.
ChildConsumer(self) == <<IFrom(self, 3), IGoto(1), IReturn>>

\* parent_to_child_trivial / test_prearranged_*: send some tokens, then close.
SinkParent ==
    <<ICreate(Sink, TRUE), ILoop(5), IYield(Sink), IGoto(2), IClose(Sink), IReturn>>

\* star_network_first_child: two messages, then return.
StarFirstChild == <<IYield(StarA), IYield(StarA), IReturn>>

(***************************************************************************)
(* star_network: forward the messages meant for the second child (the      *)
(* strstr test is the loop instruction), then close the second child.      *)
(***************************************************************************)
StarNetwork ==
    <<ICreate(StarA, TRUE), ICreate(StarB, TRUE), IFrom(StarA, 7), ILoop(3),
      IYield(StarB), IGoto(3), IClose(StarB), IReturn>>

\* cooperative_multitasking_child: hand over some number of times, then return.
CoopChild == <<ILoop(4), ISwitch(Coop), IGoto(1), IReturn>>

\* cooperative_multitasking_parent_that_finishes_{before,after}_child
CoopParent ==
    <<ICreate(Coop, TRUE), ILoop(5), ISwitch(Coop), IGoto(2), IClose(Coop), IReturn>>

\* context_switch_timing.c: child_that_yields_a_lot yields YIELD_COUNT times.
ChildThatYieldsALot(self) == GeneratorChild(self)

\* context_switch_timing.c main(): while (from(child)); between two clock reads.
TimingMain == Consumer(Timing, TRUE)

\* main(): run one test function (or the timing program's main).
Tests ==
    << Consumer(Gen, TRUE), Consumer(Triv, FALSE),
       Consumer(NestB, TRUE), TwoWayParent, AnotherTwoWayParent, SinkParent,
       StarNetwork, CoopParent, TimingMain >>

RECURSIVE Concat(_, _)
\* The tests from the i-th on, laid out one after the other from instruction k.
Concat(i, k) ==
    IF i > Len(Tests) THEN <<>>
    ELSE Shift(Tests[i], k) \o Concat(i + 1, k + Len(Tests[i]))

RECURSIVE Starts(_, _)
Starts(i, k) == IF i > Len(Tests) THEN {} ELSE {k + 1} \cup Starts(i + 1, k + Len(Tests[i]))

Main == <<IBranch(Starts(1, 1))>> \o Concat(1, 1)

MCCoroutines == {Root, Gen, Triv, NestB, NestC, Mirror, Led, Sink, StarA, StarB, Coop, Timing}

MCProg ==
    [c \in MCCoroutines |->
        CASE c = Root   -> Main
          [] c = Gen    -> GeneratorChild(Gen)
          [] c = Triv   -> GeneratorTrivial
          [] c = NestB  -> NestedB
          [] c = NestC  -> GeneratorChild(NestC)
          [] c = Mirror -> MirrorChild
          [] c = Led    -> AnotherMirror
          [] c = Sink   -> ChildConsumer(Sink)
          [] c = StarA  -> StarFirstChild
          [] c = StarB  -> ChildConsumer(StarB)
          [] c = Coop   -> CoopChild
          [] c = Timing -> ChildThatYieldsALot(Timing)]
=============================================================================
