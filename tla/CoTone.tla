------------------------------- MODULE CoTone -------------------------------
(***************************************************************************)
(* cotone.c: an audio callback (the parent, run start to finish by the     *)
(* audio subsystem once per buffer) and a child coroutine, tone_generator, *)
(* that yields one sample at a time through yield_sample and hands control *)
(* back with coroutine_switch when the buffer is full.  The child is       *)
(* created, with given memory, on the first callback and never returns.    *)
(*                                                                         *)
(* On the native backend the child runs inside coroutine_create up to its  *)
(* first coroutine_switch, so the first buffer is filled during creation.  *)
(* A sample is abstracted to its number in the child's output; a buffer to *)
(* the positions cursor takes in it (0 .. end - 1, in floats).             *)
(***************************************************************************)
EXTENDS Naturals, Sequences

CONSTANTS
    SizeofFloat,     \* sizeof(float)
    FirstLenBytes,   \* the len the audio subsystem may pass on its first call
    LenBytes,        \* the len it may pass on later calls
    SegLen,          \* S of tone(), silence(), tone(), silence(), in samples
    MaxCalls,        \* how many callbacks the model lets the subsystem make
    MaxSamples       \* how many samples the model lets the child yield

ASSUME SizeofFloat \in Nat \ {0} /\ MaxCalls \in Nat /\ MaxSamples \in Nat
ASSUME SegLen \in Seq(Nat \ {0}) /\ Len(SegLen) = 4

VARIABLES
    running,   \* "sdl" (outside the callback), "callback" or "child"
    cbAt,      \* where the callback resumes: "guard" (after create) or "return"
    created,   \* the static `child` is set
    cursor,    \* context->cursor, as an index into the current buffer
    end,       \* context->end, as an index into the current buffer
    calls,     \* callbacks begun
    seg,       \* which of tone_generator's four calls the child is in
    is,        \* the loop counter of that tone() / silence()
    next,      \* number of the next sample the child yields
    played,    \* samples in the buffers handed back to the subsystem
    dev        \* main's audio device: "none", "open" (unpaused) or "failed"

vars == <<running, cbAt, created, cursor, end, calls, seg, is, next, played, dev>>

Init ==
    /\ running = "sdl"
    /\ cbAt = "guard"
    /\ created = FALSE
    /\ cursor = 0
    /\ end = 0
    /\ calls = 0
    /\ seg = 1
    /\ is = 0
    /\ next = 0
    /\ played = 0
    /\ dev = "none"

-----------------------------------------------------------------------------
(***************************************************************************)
(* regular_ass_sdl_audio_callback, up to its guard: set cursor and end     *)
(* (len / sizeof(float) floats); on the first call create the child, which *)
(* runs until its first coroutine_switch.                                  *)
(***************************************************************************)
Callback ==
    /\ running = "sdl"
    /\ dev = "open"
    /\ calls < MaxCalls
    /\ \E len \in IF calls = 0 THEN FirstLenBytes ELSE LenBytes :
          end' = len \div SizeofFloat
    /\ cursor' = 0
    /\ calls' = calls + 1
    /\ created' = TRUE
    /\ running' = IF created THEN "callback" ELSE "child"
    /\ cbAt' = "guard"
    /\ UNCHANGED <<seg, is, next, played, dev>>

\* Variant that switches to the child whatever the cursor.
CallbackResumeUnguarded ==
    /\ running = "callback"
    /\ \/ /\ cbAt = "guard"
          /\ running' = "child"
          /\ cbAt' = "return"
          /\ UNCHANGED played
       \/ /\ cbAt = "return"
          /\ running' = "sdl"
          /\ played' = played + end
          /\ UNCHANGED cbAt
    /\ UNCHANGED <<created, cursor, end, calls, seg, is, next, dev>>

(***************************************************************************)
(* The callback's guard: switch to the child only if the buffer is not     *)
(* already full; when control is back, return.  The subsystem then plays   *)
(* the whole buffer.                                                       *)
(***************************************************************************)
CallbackResume ==
    /\ running = "callback"
    /\ \/ /\ cbAt = "guard"
          /\ cursor # end
          /\ running' = "child"
          /\ cbAt' = "return"
          /\ UNCHANGED played
       \/ /\ cbAt = "return" \/ cursor = end
          /\ running' = "sdl"
          /\ played' = played + end
          /\ UNCHANGED cbAt
    /\ UNCHANGED <<created, cursor, end, calls, seg, is, next, dev>>

\* Variant that hands the buffer back one sample early.
YieldSampleEarly ==
    /\ running = "child"
    /\ is < SegLen[seg]
    /\ next < MaxSamples
    /\ cursor' = cursor + 1
    /\ next' = next + 1
    /\ is' = is + 1
    /\ running' = IF cursor' + 1 = end THEN "callback" ELSE "child"
    /\ UNCHANGED <<cbAt, created, end, calls, seg, played, dev>>

(***************************************************************************)
(* One turn of tone()'s or silence()'s loop: yield_sample stores the       *)
(* sample at cursor and advances it, then switches to the parent if cursor *)
(* reached end.                                                            *)
(***************************************************************************)
YieldSample ==
    /\ running = "child"
    /\ is < SegLen[seg]
    /\ next < MaxSamples
    /\ cursor' = cursor + 1
    /\ next' = next + 1
    /\ is' = is + 1
    /\ running' = IF cursor' = end THEN "callback" ELSE "child"
    /\ UNCHANGED <<cbAt, created, end, calls, seg, played, dev>>

\* Variant that runs off the end of tone_generator's four calls.
NextSegmentNoWrap ==
    /\ running = "child"
    /\ is = SegLen[seg]
    /\ seg' = seg + 1
    /\ is' = 0
    /\ UNCHANGED <<running, cbAt, created, cursor, end, calls, next, played, dev>>

\* tone() or silence() returns; tone_generator's while (1) goes on.
NextSegment ==
    /\ running = "child"
    /\ is = SegLen[seg]
    /\ seg' = (seg % 4) + 1
    /\ is' = 0
    /\ UNCHANGED <<running, cbAt, created, cursor, end, calls, next, played, dev>>

(***************************************************************************)
(* main: SDL_OpenAudioDevice with the callback; on failure print the error *)
(* and exit, else unpause the device, after which the subsystem calls back *)
(* while main sleeps forever.                                              *)
(***************************************************************************)
OpenAudioDevice ==
    /\ dev = "none"
    /\ dev' \in {"open", "failed"}
    /\ UNCHANGED <<running, cbAt, created, cursor, end, calls, seg, is, next, played>>

\* exit(EXIT_FAILURE): the process is over.
Exited ==
    /\ dev = "failed"
    /\ UNCHANGED vars

\* The subsystem makes no more callbacks.
Finished ==
    /\ running = "sdl"
    /\ calls = MaxCalls
    /\ UNCHANGED vars

Next ==
    \/ OpenAudioDevice
    \/ Exited
    \/ Callback
    \/ CallbackResume
    \/ YieldSample
    \/ NextSegment
    \/ Finished

\* One audio thread runs the callback and the child; it never stops for good.
Spec == Init /\ [][Next]_vars /\ WF_vars(Next)

-----------------------------------------------------------------------------
TypeOK ==
    /\ running \in {"sdl", "callback", "child"}
    /\ cbAt \in {"guard", "return"}
    /\ created \in BOOLEAN
    /\ {cursor, end, calls, is, next, played} \subseteq Nat
    /\ seg \in 1..4
    /\ dev \in {"none", "open", "failed"}

(***************************************************************************)
(* Every buffer is filled exactly: the child never writes at or past end,  *)
(* and the samples it yields are the samples played, in order, none lost   *)
(* or played twice -- a buffer handed back holds exactly the samples after *)
(* the previous buffer's, and the child's next sample goes right after.    *)
(***************************************************************************)
BufferExact ==
    /\ cursor <= end
    /\ next = played + (IF running = "sdl" THEN 0 ELSE cursor)

(***************************************************************************)
(* Every callback returns: the child hands control back after filling the  *)
(* buffer (the callback must finish in bounded time for the subsystem).    *)
(***************************************************************************)
CallbackReturns == [](running # "sdl" => <>(running = "sdl"))
=============================================================================
