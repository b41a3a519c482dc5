------------------------- MODULE CoroutineUcontext -------------------------
(***************************************************************************)
(* The ucontext fallback backend (coroutine.c built against libucontext or *)
(* the system's ucontext).  The API code is the native backend's; what     *)
(* differs is the context switch.  channel->inactive is a pointer to a     *)
(* ucontext_t that lives in a stack frame of the suspended party: each     *)
(* swap_context_symmetric call declares a local buf, points inactive at it *)
(* and swapcontexts into the old one; the buf dies when that call returns, *)
(* that is, when the party is resumed.  The springboard leaves for good    *)
(* with setcontext, which stores nothing, so after the child returns       *)
(* inactive points into a frame of the parent that has already returned.   *)
(*                                                                         *)
(* inactive[ch] names the coroutine whose pending swap_context_symmetric   *)
(* frame holds the buf it points to; suspOn[c] is the channel that frame   *)
(* of c swapped on, or NoBuf if c has no such frame.  Everything else      *)
(* means what it means in Coroutine, which this module implements.         *)
(***************************************************************************)
EXTENDS CoroutineProgram

CONSTANT NoBuf

VARIABLES
    running,   \* the coroutine executing on the thread
    pc,        \* pc[c]: index of c's next instruction
    phase,     \* as in Coroutine
    iters,     \* iters[c][i]: turns taken by the loop at instruction i of c
    func,      \* channel->func # NULL
    value,     \* channel->value
    inactive,  \* whose swap frame's ucontext_t channel->inactive points to
    suspOn,    \* suspOn[c]: the channel c's pending swap frame swapped on
    freeFunc,  \* channel->free_func # NULL (made by coroutine_create)
    released,  \* from() or close_and_join() has freed the channel's block
    put,       \* put[ch][d]: data sent over ch in direction d (history)
    got        \* got[ch][d]: what from() returned, other than NULL (history)

vars == <<running, pc, phase, iters, func, value, inactive, suspOn, freeFunc,
          released, put, got>>

Cur(c) == Prog[c][pc[c]]

-----------------------------------------------------------------------------
\* Variant that never points inactive at the new buf.
SwapContextSymmetricNoStore(ch) ==
    LET tmp == inactive[ch] IN
    /\ running' = tmp
    /\ inactive' = inactive
    /\ suspOn' = [suspOn EXCEPT ![running] = ch, ![tmp] = NoBuf]

(***************************************************************************)
(* swap_context_symmetric(channel): tmp = inactive; inactive = &buf;       *)
(* swapcontext(&buf, tmp).  The caller's context is saved in its own buf   *)
(* and the owner of tmp resumes, returning from its swap call, so its buf  *)
(* is gone.                                                                *)
(***************************************************************************)
SwapContextSymmetric(ch) ==
    LET tmp == inactive[ch] IN
    /\ running' = tmp
    /\ inactive' = [inactive EXCEPT ![ch] = running]
    /\ suspOn' = [suspOn EXCEPT ![running] = ch, ![tmp] = NoBuf]

(***************************************************************************)
(* bootstrap_context: getcontext/makecontext fill a local dest that starts *)
(* springboard on the child's stack; inactive = &dest; then                *)
(* swap_context_symmetric, which saves the parent into its buf and enters  *)
(* dest.  dest is read only by that swapcontext.                           *)
(***************************************************************************)
BootstrapContext(ch) ==
    /\ running' = ch
    /\ inactive' = [inactive EXCEPT ![ch] = running]
    /\ suspOn' = [suspOn EXCEPT ![running] = ch]

\* The release step of from() and close_and_join(): free_func(free_after)
\* when free_func is set, so a block given by the caller is never freed.
Release(ch) == released' = [released EXCEPT ![ch] = freeFunc[ch]]

Init ==
    /\ running = Root
    /\ pc = [c \in Coroutines |-> 1]
    /\ phase = [c \in Coroutines |-> IF c = Root THEN "run" ELSE "unborn"]
    /\ iters = [c \in Coroutines |-> [i \in DOMAIN Prog[c] |-> 0]]
    /\ func = [ch \in Children |-> FALSE]
    /\ value = [ch \in Children |-> NotFilled]
    /\ inactive = [ch \in Children |-> NoBuf]
    /\ suspOn = [c \in Coroutines |-> NoBuf]
    /\ freeFunc = [ch \in Children |-> FALSE]
    /\ released = [ch \in Children |-> FALSE]
    /\ put = [ch \in Children |-> [d \in Dirs |-> 0]]
    /\ got = [ch \in Children |-> [d \in Dirs |-> <<>>]]

(***************************************************************************)
(* coroutine_create_given_memory: the channel record is initialised with   *)
(* func and value = arg, bootstrap_context saves the parent in its buf and *)
(* calls the springboard on the new stack, which takes the argument out of *)
(* value, leaves not_filled behind and calls the child's function.         *)
(***************************************************************************)
CoroutineCreate(r) ==
    LET ch == Cur(r).ch IN
    /\ Cur(r).op = "create"
    /\ func' = [func EXCEPT ![ch] = TRUE]
    /\ value' = [value EXCEPT ![ch] = NotFilled]
    /\ freeFunc' = [freeFunc EXCEPT ![ch] = FALSE]
    /\ BootstrapContext(ch)
    /\ phase' = [phase EXCEPT ![r] = "create", ![ch] = "run"]
    /\ UNCHANGED <<pc, iters, released, put, got>>

(***************************************************************************)
(* Control comes back to the parent after the child's first swap: the      *)
(* given-memory constructor returns the channel; coroutine_create then     *)
(* records free_after/free_func in it.                                     *)
(***************************************************************************)
CreateReturn(r) ==
    /\ phase[r] = "create"
    /\ freeFunc' = [freeFunc EXCEPT ![Cur(r).ch] = Cur(r).alloc]
    /\ phase' = [phase EXCEPT ![r] = "run"]
    /\ pc' = [pc EXCEPT ![r] = @ + 1]
    /\ UNCHANGED <<running, iters, func, value, inactive, suspOn, released, put, got>>

\* yield_to(channel, pointer): store the datum, then swap.
YieldTo(r) ==
    LET ch == Cur(r).ch
        d  == SendDir(r, ch)
    IN
    /\ Cur(r).op = "yield"
    /\ value' = [value EXCEPT ![ch] = <<d, put[ch][d] + 1>>]
    /\ put' = [put EXCEPT ![ch][d] = @ + 1]
    /\ SwapContextSymmetric(ch)
    /\ pc' = [pc EXCEPT ![r] = @ + 1]
    /\ UNCHANGED <<phase, iters, func, freeFunc, released, got>>

\* Variant that takes the value without leaving not_filled behind.
FromReturnNoReset(r) ==
    LET ch == Cur(r).ch IN
    \/ /\ ~func[ch]
       /\ Release(ch)
       /\ pc' = [pc EXCEPT ![r] = Cur(r).to]
       /\ UNCHANGED <<value, got>>
    \/ /\ func[ch]
       /\ UNCHANGED value
       /\ got' = IF value[ch] = Null THEN got
                 ELSE [got EXCEPT ![ch][RecvDir(r, ch)] = Append(@, value[ch])]
       /\ pc' = [pc EXCEPT ![r] = IF value[ch] = Null THEN Cur(r).to ELSE @ + 1]
       /\ UNCHANGED released

(***************************************************************************)
(* The part of from() after the optional swap: if the child has returned,  *)
(* release and return NULL; otherwise take the value and leave not_filled. *)
(* A NULL result sends the program to the instruction's `to`.              *)
(***************************************************************************)
FromReturn(r) ==
    LET ch  == Cur(r).ch
        ret == value[ch]
    IN
    \/ /\ ~func[ch]
       /\ Release(ch)
       /\ pc' = [pc EXCEPT ![r] = Cur(r).to]
       /\ UNCHANGED <<value, got>>
    \/ /\ func[ch]
       /\ value' = [value EXCEPT ![ch] = NotFilled]
       /\ got' = IF ret = Null THEN got
                 ELSE [got EXCEPT ![ch][RecvDir(r, ch)] = Append(@, ret)]
       /\ pc' = [pc EXCEPT ![r] = IF ret = Null THEN Cur(r).to ELSE @ + 1]
       /\ UNCHANGED released

\* from(channel): swap first if the child is alive and the slot is empty.
From(r) ==
    LET ch == Cur(r).ch IN
    /\ Cur(r).op = "from"
    /\ phase[r] = "run"
    /\ \/ /\ func[ch] /\ value[ch] = NotFilled
          /\ SwapContextSymmetric(ch)
          /\ phase' = [phase EXCEPT ![r] = "from"]
          /\ UNCHANGED <<pc, value, released, got>>
       \/ /\ ~(func[ch] /\ value[ch] = NotFilled)
          /\ FromReturn(r)
          /\ UNCHANGED <<running, phase, inactive, suspOn>>
    /\ UNCHANGED <<iters, func, freeFunc, put>>

\* from() resumed after its swap.
FromResume(r) ==
    /\ phase[r] = "from"
    /\ FromReturn(r)
    /\ phase' = [phase EXCEPT ![r] = "run"]
    /\ UNCHANGED <<running, iters, func, inactive, suspOn, freeFunc, put>>

(***************************************************************************)
(* close_and_join: while (channel->func) yield_to(channel, NULL); then     *)
(* release.  One step is one turn of the loop; the parent resumes at the   *)
(* same instruction and tests func again.                                  *)
(***************************************************************************)
CloseAndJoin(r) ==
    LET ch == Cur(r).ch IN
    /\ Cur(r).op = "close"
    /\ \/ /\ func[ch]
          /\ value' = [value EXCEPT ![ch] = Null]
          /\ SwapContextSymmetric(ch)
          /\ UNCHANGED <<pc, released>>
       \/ /\ ~func[ch]
          /\ Release(ch)
          /\ pc' = [pc EXCEPT ![r] = @ + 1]
          /\ UNCHANGED <<running, value, inactive, suspOn>>
    /\ UNCHANGED <<phase, iters, func, freeFunc, put, got>>

\* coroutine_switch: swap only if the child has not returned.
CoroutineSwitch(r) ==
    LET ch == Cur(r).ch IN
    /\ Cur(r).op = "switch"
    /\ IF func[ch] THEN SwapContextSymmetric(ch) ELSE UNCHANGED <<running, inactive, suspOn>>
    /\ pc' = [pc EXCEPT ![r] = @ + 1]
    /\ UNCHANGED <<phase, iters, func, value, freeFunc, released, put, got>>

(***************************************************************************)
(* The child's function returns into the springboard: func = NULL, then    *)
(* setcontext(channel->inactive) resumes the parent and stores nothing.    *)
(***************************************************************************)
SpringboardReturn(r) ==
    /\ Cur(r).op = "return"
    /\ r # Root
    /\ func' = [func EXCEPT ![r] = FALSE]
    /\ running' = inactive[r]
    /\ suspOn' = [suspOn EXCEPT ![inactive[r]] = NoBuf]
    /\ phase' = [phase EXCEPT ![r] = "dead"]
    /\ UNCHANGED <<pc, iters, value, inactive, freeFunc, released, put, got>>

\* Root's code returns: the lineage is over.
RootReturn(r) ==
    /\ Cur(r).op = "return"
    /\ r = Root
    /\ phase' = [phase EXCEPT ![r] = "done"]
    /\ UNCHANGED <<running, pc, iters, func, value, inactive, suspOn, freeFunc, released, put, got>>

\* Control flow of the user code.
Loop(r) ==
    /\ Cur(r).op = "loop"
    /\ \/ /\ iters[r][pc[r]] < MaxIter
          /\ iters' = [iters EXCEPT ![r][pc[r]] = @ + 1]
          /\ pc' = [pc EXCEPT ![r] = @ + 1]
       \/ /\ pc' = [pc EXCEPT ![r] = Cur(r).to]
          /\ UNCHANGED iters
    /\ UNCHANGED <<running, phase, func, value, inactive, suspOn, freeFunc, released, put, got>>

Branch(r) ==
    /\ Cur(r).op = "branch"
    /\ \E t \in Cur(r).to : pc' = [pc EXCEPT ![r] = t]
    /\ UNCHANGED <<running, phase, iters, func, value, inactive, suspOn, freeFunc, released, put, got>>

Goto(r) ==
    /\ Cur(r).op = "goto"
    /\ pc' = [pc EXCEPT ![r] = Cur(r).to]
    /\ UNCHANGED <<running, phase, iters, func, value, inactive, suspOn, freeFunc, released, put, got>>

\* The running coroutine at an instruction (not suspended inside a call).
AtInstr(r) == phase[r] = "run"

\* After Root returned, the thread has nothing left to do.
Finished ==
    /\ phase[Root] = "done"
    /\ UNCHANGED vars

Next ==
    \/ /\ AtInstr(running)
       /\ \/ CoroutineCreate(running)
          \/ YieldTo(running)
          \/ From(running)
          \/ CloseAndJoin(running)
          \/ CoroutineSwitch(running)
          \/ SpringboardReturn(running)
          \/ RootReturn(running)
          \/ Loop(running)
          \/ Goto(running)
          \/ Branch(running)
    \/ CreateReturn(running)
    \/ FromResume(running)
    \/ Finished

(***************************************************************************)
(* The thread that runs the lineage is never stopped for good by the       *)
(* library or by the OS, so the next step is eventually taken.            *)
(***************************************************************************)
Spec == Init /\ [][Next]_vars /\ WF_vars(Next)

-----------------------------------------------------------------------------
TypeOK ==
    /\ running \in Coroutines
    /\ pc \in [Coroutines -> Nat]
    /\ phase \in [Coroutines -> {"unborn", "run", "create", "from", "dead", "done"}]
    /\ \A c \in Coroutines : iters[c] \in [DOMAIN Prog[c] -> 0..MaxIter]
    /\ func \in [Children -> BOOLEAN]
    /\ value \in [Children -> Values]
    /\ inactive \in [Children -> Coroutines \cup {NoBuf}]
    /\ suspOn \in [Coroutines -> Children \cup {NoBuf}]
    /\ freeFunc \in [Children -> BOOLEAN]
    /\ released \in [Children -> BOOLEAN]
    /\ put \in [Children -> [Dirs -> Nat]]
    /\ got \in [Children -> [Dirs -> Seq(Values)]]

Live(c) == phase[c] \notin {"unborn", "dead"}

(***************************************************************************)
(* channel->inactive is never a dangling pointer when it can be used: as   *)
(* long as the child has not returned, it points to the buf of a swap      *)
(* frame that is still pending, and that frame swapped on this channel;    *)
(* and every live coroutine other than the running one is suspended in    *)
(* exactly such a frame, reachable from the channel it swapped on, so no   *)
(* continuation is lost.  (After the child returns inactive does dangle;   *)
(* from, close_and_join and coroutine_switch test func first.)             *)
(***************************************************************************)
InactiveValid ==
    /\ \A ch \in Children : func[ch] => inactive[ch] # NoBuf /\ suspOn[inactive[ch]] = ch
    /\ \A c \in Coroutines :
         Live(c) /\ c # running => suspOn[c] # NoBuf /\ inactive[suspOn[c]] = c
    /\ suspOn[running] = NoBuf

-----------------------------------------------------------------------------
(***************************************************************************)
(* Refinement mapping to the native backend: while the child lives, the    *)
(* continuation stored in the channel is the owner of the buf inactive     *)
(* points to; once it has returned (or before it is born) it is the        *)
(* child's own, never resumed.                                             *)
(***************************************************************************)
CtxMap == [ch \in Children |-> IF func[ch] THEN inactive[ch] ELSE ch]

Native == INSTANCE Coroutine WITH ctx <- CtxMap

(***************************************************************************)
(* The ucontext backend implements the native one: each of its steps is a  *)
(* step of Coroutine's Next, and its behaviours are as live.               *)
(***************************************************************************)
CoroutineRefinement == Native!Spec
=============================================================================
