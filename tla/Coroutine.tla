------------------------------ MODULE Coroutine ------------------------------
(***************************************************************************)
(* The native backend of the coroutine library (coroutine.c): the channel  *)
(* record, the springboard and the API -- coroutine_create,                *)
(* coroutine_create_given_memory, yield_to, from, close_and_join and       *)
(* coroutine_switch -- over one lineage of coroutines that all run on one  *)
(* OS thread.                                                              *)
(*                                                                         *)
(* SWAP_CONTEXT is one atomic step: it stores the running coroutine's      *)
(* continuation into channel->context_inactive and resumes the one stored  *)
(* there.  ctx[ch] names the coroutine whose continuation is stored; the   *)
(* continuation itself is that coroutine's pc and phase.  A child that     *)
(* returned leaves its own, never to be resumed, continuation in ctx (the  *)
(* __builtin_unreachable after the springboard's last swap).               *)
(***************************************************************************)
EXTENDS CoroutineProgram

VARIABLES
    running,   \* the coroutine executing on the thread
    pc,        \* pc[c]: index of c's next instruction
    phase,     \* where c is: "unborn", "run", suspended in "create" or "from",
               \* "dead" (its entry function returned) or "done" (Root returned)
    iters,     \* iters[c][i]: turns taken by the loop at instruction i of c
    func,      \* channel->func # NULL
    value,     \* channel->value
    ctx,       \* whose continuation channel->context_inactive holds
    freeFunc,  \* channel->free_func # NULL (made by coroutine_create)
    released,  \* from() or close_and_join() has freed the channel's block
    put,       \* put[ch][d]: data sent over ch in direction d (history)
    got        \* got[ch][d]: what from() returned, other than NULL (history)

vars == <<running, pc, phase, iters, func, value, ctx, freeFunc, released, put, got>>

Cur(c) == Prog[c][pc[c]]

-----------------------------------------------------------------------------
(***************************************************************************)
(* SWAP_CONTEXT(channel): the running coroutine's continuation goes into   *)
(* the channel's inactive context and the one stored there is resumed.     *)
(***************************************************************************)
\* Variant with the store into the inactive context left out.
SwapContextNoStore(ch) ==
    /\ running' = ctx[ch]
    /\ ctx' = ctx

SwapContext(ch) ==
    /\ running' = ctx[ch]
    /\ ctx' = [ctx EXCEPT ![ch] = running]

(***************************************************************************)
(* BOOTSTRAP_CONTEXT(channel, springboard): the parent's context goes into *)
(* the new channel and the springboard is called on the child's stack.     *)
(***************************************************************************)
BootstrapContext(ch) ==
    /\ ctx' = [ctx EXCEPT ![ch] = running]
    /\ running' = ch

\* The release step of from() and close_and_join(): free_func(free_after)
\* when free_func is set, so a block given by the caller is never freed.
Release(ch) == released' = [released EXCEPT ![ch] = freeFunc[ch]]

Init ==
    /\ running = Root
    /\ pc = [c \in Coroutines |-> 1]
    /\ phase = [c \in Coroutines |-> IF c = Root THEN "run" ELSE "unborn"]
    /\ iters = [c \in Coroutines |-> [i \in DOMAIN Prog[c] |-> 0]]
    /\ func = [ch \in Children |-> FALSE]
    /\ value = [ch \in Children |-> NotFilled]
    /\ ctx = [ch \in Children |-> ch]
    /\ freeFunc = [ch \in Children |-> FALSE]
    /\ released = [ch \in Children |-> FALSE]
    /\ put = [ch \in Children |-> [d \in Dirs |-> 0]]
    /\ got = [ch \in Children |-> [d \in Dirs |-> <<>>]]

(***************************************************************************)
(* coroutine_create_given_memory: the channel record is initialised with   *)
(* func and value = arg, BOOTSTRAP_CONTEXT stores the parent's context and *)
(* calls the springboard on the new stack, which takes the argument out of *)
(* value, leaves not_filled behind and calls the child's function.         *)
(***************************************************************************)
CoroutineCreate(r) ==
    LET ch == Cur(r).ch IN
    /\ Cur(r).op = "create"
    /\ func' = [func EXCEPT ![ch] = TRUE]
    /\ value' = [value EXCEPT ![ch] = NotFilled]
    /\ freeFunc' = [freeFunc EXCEPT ![ch] = FALSE]
    /\ BootstrapContext(ch)
    /\ phase' = [phase EXCEPT ![r] = "create", ![ch] = "run"]
    /\ UNCHANGED <<pc, iters, released, put, got>>

(***************************************************************************)
(* Control comes back to the parent after the child's first swap: the      *)
(* given-memory constructor returns the channel; coroutine_create then     *)
(* records free_after/free_func in it.                                     *)
(***************************************************************************)
CreateReturn(r) ==
    /\ phase[r] = "create"
    /\ freeFunc' = [freeFunc EXCEPT ![Cur(r).ch] = Cur(r).alloc]
    /\ phase' = [phase EXCEPT ![r] = "run"]
    /\ pc' = [pc EXCEPT ![r] = @ + 1]
    /\ UNCHANGED <<running, iters, func, value, ctx, released, put, got>>

\* yield_to(channel, pointer): store the datum, then swap.
YieldTo(r) ==
    LET ch == Cur(r).ch
        d  == SendDir(r, ch)
    IN
    /\ Cur(r).op = "yield"
    /\ value' = [value EXCEPT ![ch] = <<d, put[ch][d] + 1>>]
    /\ put' = [put EXCEPT ![ch][d] = @ + 1]
    /\ SwapContext(ch)
    /\ pc' = [pc EXCEPT ![r] = @ + 1]
    /\ UNCHANGED <<phase, iters, func, freeFunc, released, got>>

\* Variant that takes the value without leaving not_filled behind.
FromReturnNoReset(r) ==
    LET ch  == Cur(r).ch
        ret == value[ch]
    IN
    \/ /\ ~func[ch]
       /\ Release(ch)
       /\ pc' = [pc EXCEPT ![r] = Cur(r).to]
       /\ UNCHANGED <<value, got>>
    \/ /\ func[ch]
       /\ UNCHANGED value
       /\ got' = IF ret = Null THEN got
                 ELSE [got EXCEPT ![ch][RecvDir(r, ch)] = Append(@, ret)]
       /\ pc' = [pc EXCEPT ![r] = IF ret = Null THEN Cur(r).to ELSE @ + 1]
       /\ UNCHANGED released

\* Variant that also treats a NULL datum as the end of the stream and releases.
FromReturnReleaseOnNull(r) ==
    LET ch  == Cur(r).ch
        ret == value[ch]
    IN
    \/ /\ ~func[ch] \/ ret = Null
       /\ Release(ch)
       /\ pc' = [pc EXCEPT ![r] = Cur(r).to]
       /\ UNCHANGED <<value, got>>
    \/ /\ func[ch] /\ ret # Null
       /\ value' = [value EXCEPT ![ch] = NotFilled]
       /\ got' = [got EXCEPT ![ch][RecvDir(r, ch)] = Append(@, ret)]
       /\ pc' = [pc EXCEPT ![r] = @ + 1]
       /\ UNCHANGED released

(***************************************************************************)
(* The part of from() after the optional swap: if the child has returned,  *)
(* release and return NULL; otherwise take the value and leave not_filled. *)
(* A NULL result sends the program to the instruction's `to`.              *)
(***************************************************************************)
FromReturn(r) ==
    LET ch  == Cur(r).ch
        ret == value[ch]
    IN
    \/ /\ ~func[ch]
       /\ Release(ch)
       /\ pc' = [pc EXCEPT ![r] = Cur(r).to]
       /\ UNCHANGED <<value, got>>
    \/ /\ func[ch]
       /\ value' = [value EXCEPT ![ch] = NotFilled]
       /\ got' = IF ret = Null THEN got
                 ELSE [got EXCEPT ![ch][RecvDir(r, ch)] = Append(@, ret)]
       /\ pc' = [pc EXCEPT ![r] = IF ret = Null THEN Cur(r).to ELSE @ + 1]
       /\ UNCHANGED released

\* from(channel): swap first if the child is alive and the slot is empty.
From(r) ==
    LET ch == Cur(r).ch IN
    /\ Cur(r).op = "from"
    /\ phase[r] = "run"
    /\ \/ /\ func[ch] /\ value[ch] = NotFilled
          /\ SwapContext(ch)
          /\ phase' = [phase EXCEPT ![r] = "from"]
          /\ UNCHANGED <<pc, value, released, got>>
       \/ /\ ~(func[ch] /\ value[ch] = NotFilled)
          /\ FromReturn(r)
          /\ UNCHANGED <<running, phase, ctx>>
    /\ UNCHANGED <<iters, func, freeFunc, put>>

\* from() resumed after its swap.
FromResume(r) ==
    /\ phase[r] = "from"
    /\ FromReturn(r)
    /\ phase' = [phase EXCEPT ![r] = "run"]
    /\ UNCHANGED <<running, iters, func, ctx, freeFunc, put>>

\* Variant with `if` for `while`: one NULL is sent, then the channel is released.
CloseAndJoinOnce(r) ==
    LET ch == Cur(r).ch IN
    /\ Cur(r).op = "close"
    /\ \/ /\ func[ch]
          /\ value' = [value EXCEPT ![ch] = Null]
          /\ SwapContext(ch)
       \/ /\ ~func[ch]
          /\ UNCHANGED <<running, value, ctx>>
    /\ Release(ch)
    /\ pc' = [pc EXCEPT ![r] = @ + 1]
    /\ UNCHANGED <<phase, iters, func, freeFunc, put, got>>

(***************************************************************************)
(* close_and_join: while (channel->func) yield_to(channel, NULL); then     *)
(* release.  One step is one turn of the loop; the parent resumes at the   *)
(* same instruction and tests func again.                                  *)
(***************************************************************************)
CloseAndJoin(r) ==
    LET ch == Cur(r).ch IN
    /\ Cur(r).op = "close"
    /\ \/ /\ func[ch]
          /\ value' = [value EXCEPT ![ch] = Null]
          /\ SwapContext(ch)
          /\ UNCHANGED <<pc, released>>
       \/ /\ ~func[ch]
          /\ Release(ch)
          /\ pc' = [pc EXCEPT ![r] = @ + 1]
          /\ UNCHANGED <<running, value, ctx>>
    /\ UNCHANGED <<phase, iters, func, freeFunc, put, got>>

\* Variant without the test of func.
CoroutineSwitchUnguarded(r) ==
    LET ch == Cur(r).ch IN
    /\ Cur(r).op = "switch"
    /\ SwapContext(ch)
    /\ pc' = [pc EXCEPT ![r] = @ + 1]
    /\ UNCHANGED <<phase, iters, func, value, freeFunc, released, put, got>>

\* coroutine_switch: swap only if the child has not returned.
CoroutineSwitch(r) ==
    LET ch == Cur(r).ch IN
    /\ Cur(r).op = "switch"
    /\ IF func[ch] THEN SwapContext(ch) ELSE UNCHANGED <<running, ctx>>
    /\ pc' = [pc EXCEPT ![r] = @ + 1]
    /\ UNCHANGED <<phase, iters, func, value, freeFunc, released, put, got>>

\* Variant that swaps back without nulling func.
SpringboardReturnKeepFunc(r) ==
    /\ Cur(r).op = "return"
    /\ r # Root
    /\ SwapContext(r)
    /\ phase' = [phase EXCEPT ![r] = "dead"]
    /\ UNCHANGED <<pc, iters, func, value, freeFunc, released, put, got>>

(***************************************************************************)
(* The child's function returns into the springboard, which nulls func     *)
(* and swaps back to the parent for good.                                  *)
(***************************************************************************)
SpringboardReturn(r) ==
    /\ Cur(r).op = "return"
    /\ r # Root
    /\ func' = [func EXCEPT ![r] = FALSE]
    /\ SwapContext(r)
    /\ phase' = [phase EXCEPT ![r] = "dead"]
    /\ UNCHANGED <<pc, iters, value, freeFunc, released, put, got>>

\* Root's code returns: the lineage is over.
RootReturn(r) ==
    /\ Cur(r).op = "return"
    /\ r = Root
    /\ phase' = [phase EXCEPT ![r] = "done"]
    /\ UNCHANGED <<running, pc, iters, func, value, ctx, freeFunc, released, put, got>>

\* Control flow of the user code.
Loop(r) ==
    /\ Cur(r).op = "loop"
    /\ \/ /\ iters[r][pc[r]] < MaxIter
          /\ iters' = [iters EXCEPT ![r][pc[r]] = @ + 1]
          /\ pc' = [pc EXCEPT ![r] = @ + 1]
       \/ /\ pc' = [pc EXCEPT ![r] = Cur(r).to]
          /\ UNCHANGED iters
    /\ UNCHANGED <<running, phase, func, value, ctx, freeFunc, released, put, got>>

Branch(r) ==
    /\ Cur(r).op = "branch"
    /\ \E t \in Cur(r).to : pc' = [pc EXCEPT ![r] = t]
    /\ UNCHANGED <<running, phase, iters, func, value, ctx, freeFunc, released, put, got>>

Goto(r) ==
    /\ Cur(r).op = "goto"
    /\ pc' = [pc EXCEPT ![r] = Cur(r).to]
    /\ UNCHANGED <<running, phase, iters, func, value, ctx, freeFunc, released, put, got>>

\* The running coroutine at an instruction (not suspended inside a call).
AtInstr(r) == phase[r] = "run"

\* After Root returned, the thread has nothing left to do.
Finished ==
    /\ phase[Root] = "done"
    /\ UNCHANGED vars

Next ==
    \/ /\ AtInstr(running)
       /\ \/ CoroutineCreate(running)
          \/ YieldTo(running)
          \/ From(running)
          \/ CloseAndJoin(running)
          \/ CoroutineSwitch(running)
          \/ SpringboardReturn(running)
          \/ RootReturn(running)
          \/ Loop(running)
          \/ Goto(running)
          \/ Branch(running)
    \/ CreateReturn(running)
    \/ FromResume(running)
    \/ Finished

(***************************************************************************)
(* The thread that runs the lineage is never stopped for good by the       *)
(* library or by the OS, so the next step is eventually taken.            *)
(***************************************************************************)
Spec == Init /\ [][Next]_vars /\ WF_vars(Next)

-----------------------------------------------------------------------------
TypeOK ==
    /\ running \in Coroutines
    /\ pc \in [Coroutines -> Nat]
    /\ phase \in [Coroutines -> {"unborn", "run", "create", "from", "dead", "done"}]
    /\ \A c \in Coroutines : iters[c] \in [DOMAIN Prog[c] -> 0..MaxIter]
    /\ func \in [Children -> BOOLEAN]
    /\ value \in [Children -> Values]
    /\ ctx \in [Children -> Coroutines]
    /\ freeFunc \in [Children -> BOOLEAN]
    /\ released \in [Children -> BOOLEAN]
    /\ put \in [Children -> [Dirs -> Nat]]
    /\ got \in [Children -> [Dirs -> Seq(Values)]]

Born(ch) == phase[ch] # "unborn"
Live(c) == phase[c] \notin {"unborn", "dead"}

(***************************************************************************)
(* Single delivery (spec 8.2): what from() returns on a channel, other     *)
(* than NULL, is exactly the sequence of data the peer passed to           *)
(* yield_to on it -- never the sentinel, the argument, the receiver's own  *)
(* datum, a datum twice or out of order -- and once Root has returned      *)
(* every datum has been taken by exactly one from().                       *)
(***************************************************************************)
SingleDelivery ==
    \A ch \in Children, d \in Dirs :
        /\ got[ch][d] = [i \in 1..Len(got[ch][d]) |-> <<d, i>>]
        /\ Len(got[ch][d]) <= put[ch][d]
        /\ phase[Root] = "done" => Len(got[ch][d]) = put[ch][d]

(***************************************************************************)
(* Stack discipline of the swaps: the running coroutine's continuation is  *)
(* stored nowhere, every other live coroutine's is stored in exactly one   *)
(* channel, and that is a channel it is a party of.  A violation is a      *)
(* coroutine that can never be resumed or one that two channels resume.   *)
(***************************************************************************)
ContextIntegrity ==
    /\ \A c \in Coroutines : Live(c) =>
          Cardinality({ch \in Children : Born(ch) /\ ctx[ch] = c})
              = IF c = running THEN 0 ELSE 1
    /\ \A ch \in Children : Born(ch) /\ Live(ctx[ch]) =>
          ctx[ch] \in {ch, ParentOf(ch)}

(***************************************************************************)
(* No swap ever resumes the continuation a returned child left in its      *)
(* channel (the unreachable point after the springboard's final swap).     *)
(***************************************************************************)
NeverResumeDead == phase[running] # "dead"

(***************************************************************************)
(* Structured concurrency at exit: when Root's code returns, every child   *)
(* that was created has returned, the block coroutine_create allocated    *)
(* for it has been freed, and a block the caller gave has not.  Only       *)
(* free_func tells the two apart, and coroutine_create sets it after the  *)
(* child has already run up to its first yield (or to its end).           *)
(***************************************************************************)
JoinedAtExit ==
    phase[Root] = "done" =>
        \A ch \in Children :
            Born(ch) => phase[ch] = "dead" /\ released[ch] = AllocOf(ch)

(***************************************************************************)
(* Every program runs to the end: loops over from() see NULL, and          *)
(* close_and_join's loop ends, so Root's code returns.                     *)
(***************************************************************************)
Termination == <>(phase[Root] = "done")

(***************************************************************************)
(* No use after release: from() and close_and_join() free the block that   *)
(* holds the channel record itself (free_func(free_after)), so once a      *)
(* channel is released no coroutine may be at, or suspended in, a call on  *)
(* it.  Violated if the library released a channel whose peer still uses  *)
(* it, or a client called the API again after from() returned NULL.       *)
(***************************************************************************)
NoUseAfterRelease ==
    \A c \in Coroutines :
        Live(c) /\ Cur(c).op \in {"yield", "from", "close", "switch"} =>
            ~released[Cur(c).ch]
=============================================================================
