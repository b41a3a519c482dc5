-------------------------- MODULE ChannelPlacement --------------------------
(***************************************************************************)
(* Where coroutine_create_given_memory puts the channel record: at the     *)
(* offset (blocksize - sizeof(struct channel)) & ~(STACK_ALIGNMENT - 1)    *)
(* from the start of the caller's block.  The record's address is also the *)
(* top of the child's stack (BOOTSTRAP_CONTEXT sets the stack pointer to   *)
(* it), so it must lie inside the block and be aligned.                    *)
(*                                                                         *)
(* The two callers that pass their own memory are modelled with it:        *)
(* test_child_on_parent_stack (cotests.c), which aligns a char array on    *)
(* its stack by hand, and the first call of cotone.c's audio callback,     *)
(* which passes a static array declared aligned(64).  The architecture,    *)
(* which fixes sizeof(struct channel) and STACK_ALIGNMENT, and the address *)
(* of the caller's array are chosen in Init.  Addresses and sizes are      *)
(* size_t values of Width bits.                                            *)
(***************************************************************************)
EXTENDS Naturals, Bitwise

CONSTANTS
    Width,     \* bits of size_t
    Arches,    \* records [ctx, ptr, align]: CONTEXT_BUF_SIZE_BYTES,
               \* sizeof(void *), STACK_ALIGNMENT of a supported architecture
    Bases,     \* addresses the caller's array may have
    NoAddr     \* no channel has been placed yet

ASSUME Width \in Nat /\ NoAddr \notin Nat

VARIABLES
    arch,      \* the architecture the library was built for
    base,      \* address of the caller's array
    caller,    \* "none", "cotests" or "cotone": who is calling
    block,     \* the block argument
    blocksize, \* the blocksize argument
    channel    \* the address coroutine_create_given_memory returns

vars == <<arch, base, caller, block, blocksize, channel>>

\* size_t arithmetic, and ~x on a size_t.
Wrap(x) == x % 2^Width
BitNot(x) == (2^Width - 1) - x

(***************************************************************************)
(* sizeof(struct channel): context_inactive[CONTEXT_BUF_SIZE_BYTES], then  *)
(* four pointers (func, value, free_after, free_func) at pointer alignment.*)
(***************************************************************************)
SizeofChannel(a) == ((a.ctx + a.ptr - 1) \div a.ptr) * a.ptr + 4 * a.ptr

\* Size of the arrays both callers declare.
ArraySize == 32768

Init ==
    /\ arch \in Arches
    /\ base \in Bases
    /\ caller = "none"
    /\ block = NoAddr
    /\ blocksize = 0
    /\ channel = NoAddr

(***************************************************************************)
(* test_child_on_parent_stack: round the array's address up to 64 and pass *)
(* 64 bytes less than the array holds.                                     *)
(***************************************************************************)
TestChildOnParentStack ==
    /\ caller = "none"
    /\ caller' = "cotests"
    /\ block' = Wrap(base + 63) & BitNot(63)
    /\ blocksize' = ArraySize - 64
    /\ UNCHANGED <<arch, base, channel>>

(***************************************************************************)
(* regular_ass_sdl_audio_callback's first call: the static array is        *)
(* aligned(64) by the compiler, and passed whole.                          *)
(***************************************************************************)
ToneGivenMemory ==
    /\ caller = "none"
    /\ base % 64 = 0
    /\ caller' = "cotone"
    /\ block' = base
    /\ blocksize' = ArraySize
    /\ UNCHANGED <<arch, base, channel>>

\* Variant that aligns the size before taking the record off it.
PlaceAlignSizeFirst(b, n) ==
    Wrap(b + Wrap((n & BitNot(arch.align - 1)) - SizeofChannel(arch)))

\* The channel's address, as coroutine_create_given_memory computes it.
Place(b, n) ==
    Wrap(b + (Wrap(n - SizeofChannel(arch)) & BitNot(arch.align - 1)))

\* coroutine_create_given_memory positions the record (and the new stack top).
CoroutineCreateGivenMemory ==
    /\ block # NoAddr
    /\ channel = NoAddr
    /\ channel' = Place(block, blocksize)
    /\ UNCHANGED <<arch, base, caller, block, blocksize>>

\* The call has returned; nothing further happens to the placement.
Placed ==
    /\ channel # NoAddr
    /\ UNCHANGED vars

Next ==
    \/ TestChildOnParentStack
    \/ ToneGivenMemory
    \/ CoroutineCreateGivenMemory
    \/ Placed

Spec == Init /\ [][Next]_vars

-----------------------------------------------------------------------------
\* Reference: the highest address at or below x that is a multiple of a.
AlignDown(x, a) == (x \div a) * a

(***************************************************************************)
(* The record and the child's stack fit the caller's memory: the record    *)
(* lies inside the block, the block inside the caller's array, and the     *)
(* record's address -- the child's initial stack pointer -- is the highest *)
(* address a whole record fits below the block's end that is aligned to    *)
(* STACK_ALIGNMENT.  This relates the caller's own rounding to the         *)
(* library's offset arithmetic, on every architecture.                     *)
(***************************************************************************)
PlacedInBlock ==
    channel # NoAddr =>
        /\ base <= block
        /\ block + blocksize <= base + ArraySize
        /\ block <= channel
        /\ channel + SizeofChannel(arch) <= block + blocksize
        /\ channel = AlignDown(block + blocksize - SizeofChannel(arch), arch.align)
=============================================================================
