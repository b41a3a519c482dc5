------------------------------- MODULE CoMorse -------------------------------
(***************************************************************************)
(* comorse.c: main creates morse_generator with the sentence as argument  *)
(* and prints every pixel from() hands it until from() returns NULL.  The  *)
(* generator loops over the letters, looks up the pixel string of the      *)
(* letter's upper case in morsetable (that of ' ' when there is none), and *)
(* yields a pointer to each pixel in turn.                                 *)
(*                                                                         *)
(* The channel follows the native backend: coroutine_create runs the child *)
(* up to its first yield_to; from() swaps only when func is set and the    *)
(* slot is empty, and releases the child once func is NULL.  A sentence is *)
(* the sequence of bytes of argv[1]; a pixel is its character code.        *)
(***************************************************************************)
EXTENDS Naturals, Integers, Sequences, SequencesExt

CONSTANTS
    Sentences,   \* the byte sequences argv[1] may hold ("test" without one)
    CharSigned,  \* whether plain char is signed in the build
    NotFilled,   \* the not_filled sentinel
    Junk         \* a pixel read through a stray pointer

VARIABLES
    sentence,  \* the argument
    running,   \* "main" or "child"
    mainAt,    \* "start", "create", "loop" (at from()), "from" (inside it), "done"
    func,      \* channel->func is set
    value,     \* channel->value: NotFilled or the pixel yielded
    letter,    \* the generator's letter index into the sentence
    pixels,    \* the pixel string of the current letter
    pixel,     \* index of the next pixel in it; 0 before the lookup
    out,       \* the characters main has written
    released   \* from() has called free_func on the child's block

vars == <<sentence, running, mainAt, func, value, letter, pixels, pixel, out, released>>

Sp == 32   \* ' '
Da == 45   \* '-'

(***************************************************************************)
(* The entries of morsetable[256] for the characters the sentences use;   *)
(* every other index of 0..255 the sentences reach is NULL in the code.   *)
(***************************************************************************)
MorseTable ==
    (32 :> <<Sp, Sp, Sp, Sp, Sp, Sp>>) @@
    (69 :> <<Sp, Da, Sp, Sp>>) @@
    (83 :> <<Sp, Da, Sp, Da, Sp, Da, Sp, Sp>>) @@
    (84 :> <<Sp, Da, Da, Da, Sp, Sp>>)

\* The value *letter has: the byte, or the byte - 256 when char is signed.
CharOf(b) == IF CharSigned /\ b >= 128 THEN b - 256 ELSE b

\* toupper in the C locale (glibc also maps -128 .. -1 to themselves).
ToUpper(c) == IF c \in 97..122 THEN c - 32 ELSE c

(***************************************************************************)
(* morsetable[toupper(c)] ?: morsetable[' ']: an index outside the array  *)
(* reads whatever word precedes it, NULL or a stray pointer.               *)
(***************************************************************************)
Lookup(c) ==
    LET i == ToUpper(c) IN
    IF i \in DOMAIN MorseTable THEN {MorseTable[i]}
    ELSE IF i \in 0..255 THEN {MorseTable[Sp]}
    ELSE {MorseTable[Sp], <<Junk>>}

Init ==
    /\ sentence \in Sentences
    /\ running = "main"
    /\ mainAt = "start"
    /\ func = FALSE
    /\ value = NotFilled
    /\ letter = 1
    /\ pixels = <<>>
    /\ pixel = 0
    /\ out = <<>>
    /\ released = FALSE

-----------------------------------------------------------------------------
\* main: coroutine_create(morse_generator, sentence); the springboard takes
\* the argument out of value and runs the child.
CoroutineCreate ==
    /\ running = "main" /\ mainAt = "start"
    /\ func' = TRUE
    /\ value' = NotFilled
    /\ running' = "child"
    /\ mainAt' = "create"
    /\ UNCHANGED <<sentence, letter, pixels, pixel, out, released>>

\* Control is back in coroutine_create, which returns the channel.
CreateReturn ==
    /\ running = "main" /\ mainAt = "create"
    /\ mainAt' = "loop"
    /\ UNCHANGED <<sentence, running, func, value, letter, pixels, pixel, out, released>>

(***************************************************************************)
(* The part of from() after the optional swap, with main's loop around it: *)
(* a returned child is released and NULL ends the loop (then '\n' and      *)
(* return 0); otherwise the pixel is taken and written.                    *)
(***************************************************************************)
FromReturn ==
    \/ /\ ~func
       /\ released' = TRUE
       /\ mainAt' = "done"
       /\ UNCHANGED <<value, out>>
    \/ /\ func
       /\ value' = NotFilled
       /\ out' = Append(out, value)
       /\ mainAt' = "loop"
       /\ UNCHANGED released

\* main's loop calls from(child): swap if the child is alive and nothing waits.
From ==
    /\ running = "main" /\ mainAt = "loop"
    /\ \/ /\ func /\ value = NotFilled
          /\ running' = "child"
          /\ mainAt' = "from"
          /\ UNCHANGED <<value, out, released>>
       \/ /\ ~(func /\ value = NotFilled)
          /\ FromReturn
          /\ UNCHANGED running
    /\ UNCHANGED <<sentence, func, letter, pixels, pixel>>

\* from() resumed after its swap.
FromResume ==
    /\ running = "main" /\ mainAt = "from"
    /\ FromReturn
    /\ UNCHANGED <<sentence, running, func, letter, pixels, pixel>>

-----------------------------------------------------------------------------
\* The outer loop's body: look up the pixel string of the current letter.
Letter ==
    /\ running = "child" /\ pixel = 0
    /\ letter <= Len(sentence)
    /\ pixels' \in Lookup(CharOf(sentence[letter]))
    /\ pixel' = 1
    /\ UNCHANGED <<sentence, running, mainAt, func, value, letter, out, released>>

\* Variant whose inner loop stops one pixel early.
PixelStopEarly ==
    /\ running = "child" /\ pixel >= 1
    /\ \/ /\ pixel < Len(pixels)
          /\ value' = pixels[pixel]
          /\ pixel' = pixel + 1
          /\ running' = "main"
          /\ UNCHANGED letter
       \/ /\ pixel >= Len(pixels)
          /\ letter' = letter + 1
          /\ pixel' = 0
          /\ UNCHANGED <<value, running>>
    /\ UNCHANGED <<sentence, mainAt, func, pixels, out, released>>

(***************************************************************************)
(* The inner loop: yield_to(parent, pixel) for each pixel up to the NUL,   *)
(* then letter++.                                                          *)
(***************************************************************************)
Pixel ==
    /\ running = "child" /\ pixel >= 1
    /\ \/ /\ pixel <= Len(pixels)
          /\ value' = pixels[pixel]
          /\ pixel' = pixel + 1
          /\ running' = "main"
          /\ UNCHANGED letter
       \/ /\ pixel > Len(pixels)
          /\ letter' = letter + 1
          /\ pixel' = 0
          /\ UNCHANGED <<value, running>>
    /\ UNCHANGED <<sentence, mainAt, func, pixels, out, released>>

\* Variant of the springboard epilogue without the final swap to the parent.
GeneratorReturnNoSwap ==
    /\ running = "child" /\ pixel = 0
    /\ letter > Len(sentence)
    /\ func' = FALSE
    /\ UNCHANGED <<sentence, running, mainAt, value, letter, pixels, pixel, out, released>>

\* At the sentence's NUL morse_generator returns; the springboard nulls
\* func and swaps back to the parent for good.
GeneratorReturn ==
    /\ running = "child" /\ pixel = 0
    /\ letter > Len(sentence)
    /\ func' = FALSE
    /\ running' = "main"
    /\ UNCHANGED <<sentence, mainAt, value, letter, pixels, pixel, out, released>>

\* main has returned.
Finished ==
    /\ mainAt = "done"
    /\ UNCHANGED vars

Next ==
    \/ CoroutineCreate \/ CreateReturn \/ From \/ FromResume
    \/ Letter \/ Pixel \/ GeneratorReturn
    \/ Finished

\* The program is one thread, which the OS keeps running.
Spec == Init /\ [][Next]_vars /\ WF_vars(Next)

-----------------------------------------------------------------------------
\* Reference: the pixel string the comment promises for a byte.
Expected(b) ==
    LET u == ToUpper(b) IN
    IF u \in DOMAIN MorseTable THEN MorseTable[u] ELSE MorseTable[Sp]

Reference == FlattenSeq([i \in 1..Len(sentence) |-> Expected(sentence[i])])

(***************************************************************************)
(* main prints the sentence in morse: what it has written is at every     *)
(* moment a prefix of the concatenated pixel strings of the sentence's     *)
(* letters (upper case, ' ' for a letter without an entry), with no pixel *)
(* lost, repeated or reordered between yield_to and from(), and when it    *)
(* returns it has written all of them.                                     *)
(***************************************************************************)
MorseOutput ==
    /\ IsPrefix(out, Reference)
    /\ mainAt = "done" => out = Reference

\* main's from() loop ends: the generator returns and from() yields NULL.
MorseEnds == <>(mainAt = "done")
=============================================================================
