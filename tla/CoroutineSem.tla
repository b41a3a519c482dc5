----------------------------- MODULE CoroutineSem -----------------------------
(***************************************************************************)
(* The pthread fallback backend (coroutine_using_pthreads.c): every        *)
(* coroutine is an OS thread, and a channel hands control between its two  *)
(* threads with two semaphores, sem[0] (the parent waits on it) and        *)
(* sem[1] (the child waits on it), and a flag in_child naming the side     *)
(* that last received control.  The threads run truly in parallel: each   *)
(* step of one thread may be followed by a step of any other.              *)
(*                                                                         *)
(* stage[c] is where thread c is in the library's hand-off:                *)
(*   "start"    a new thread not yet past the springboard's first lines,  *)
(*   "run"      executing user code or library code that touches the      *)
(*              channel record,                                            *)
(*   "posted"   sem_post done, sem_wait not yet entered; the semaphore it  *)
(*              will wait on (the local in_child_at_entry) is waitOn[c],   *)
(*   "waiting"  inside sem_wait(waitOn[c]),                                *)
(*   "exiting"  the springboard posted for the last time and returns,      *)
(*   "exited"   the thread has terminated (pthread_join may return).       *)
(* phase, pc, iters, func, value, released, put and got mean what they     *)
(* mean in Coroutine, which this module implements (CoroutineRefinement).  *)
(***************************************************************************)
EXTENDS CoroutineProgram

VARIABLES
    pc, phase, iters, func, value, released, put, got,
    sem,       \* sem[ch][i]: count of channel->sem[i]
    inChild,   \* inChild[ch]: channel->in_child (0 or 1)
    stage,     \* stage[c]: see above
    waitOn     \* waitOn[c]: <<ch, i>>, the semaphore c waits on

vars == <<pc, phase, iters, func, value, released, put, got, sem, inChild, stage, waitOn>>

Cur(c) == Prog[c][pc[c]]

-----------------------------------------------------------------------------
(***************************************************************************)
(* context_switch(channel): flip in_child, post the other side's semaphore *)
(* and go to wait on one's own, chosen by the value in_child had on entry. *)
(***************************************************************************)
ContextSwitch(r, ch) ==
    LET e == inChild[ch] IN
    /\ inChild' = [inChild EXCEPT ![ch] = 1 - e]
    /\ sem' = [sem EXCEPT ![ch][1 - e] = @ + 1]
    /\ stage' = [stage EXCEPT ![r] = "posted"]
    /\ waitOn' = [waitOn EXCEPT ![r] = <<ch, e>>]

\* Variant whose sem_wait index is read from channel->in_child after the post.
BeginWaitReread(r) ==
    LET ch == waitOn[r][1] IN
    /\ stage[r] = "posted"
    /\ stage' = [stage EXCEPT ![r] = "waiting"]
    /\ waitOn' = [waitOn EXCEPT ![r] = <<ch, 1 - inChild[ch]>>]
    /\ UNCHANGED <<pc, phase, iters, func, value, released, put, got, sem, inChild>>

\* sem_wait(channel->sem + in_child_at_entry) is entered.
BeginWait(r) ==
    /\ stage[r] = "posted"
    /\ stage' = [stage EXCEPT ![r] = "waiting"]
    /\ UNCHANGED <<pc, phase, iters, func, value, released, put, got, sem, inChild, waitOn>>

\* sem_wait returns once the count is positive, and takes one from it.
Acquire(r) ==
    LET s == waitOn[r] IN
    /\ stage[r] = "waiting"
    /\ sem[s[1]][s[2]] > 0
    /\ sem' = [sem EXCEPT ![s[1]][s[2]] = @ - 1]
    /\ stage' = [stage EXCEPT ![r] = "run"]
    /\ UNCHANGED <<pc, phase, iters, func, value, released, put, got, inChild, waitOn>>

JoinAndCleanup(ch) ==
    /\ stage[ch] = "exited"
    /\ released' = [released EXCEPT ![ch] = TRUE]

Init ==
    /\ pc = [c \in Coroutines |-> 1]
    /\ phase = [c \in Coroutines |-> IF c = Root THEN "run" ELSE "unborn"]
    /\ iters = [c \in Coroutines |-> [i \in DOMAIN Prog[c] |-> 0]]
    /\ func = [ch \in Children |-> FALSE]
    /\ value = [ch \in Children |-> NotFilled]
    /\ released = [ch \in Children |-> FALSE]
    /\ put = [ch \in Children |-> [d \in Dirs |-> 0]]
    /\ got = [ch \in Children |-> [d \in Dirs |-> <<>>]]
    /\ sem = [ch \in Children |-> [i \in 0..1 |-> 0]]
    /\ inChild = [ch \in Children |-> 0]
    /\ stage = [c \in Coroutines |-> "run"]
    /\ waitOn = [c \in Coroutines |-> <<c, 0>>]

(***************************************************************************)
(* coroutine_create: the record gets func, value = arg, in_child = 1 and   *)
(* two zero semaphores; pthread_create starts the springboard on a new     *)
(* thread, and the parent goes to wait on sem[0].  The new thread runs     *)
(* the springboard (SpringboardStart) in parallel with the parent's        *)
(* sem_wait.                                                               *)
(***************************************************************************)
\* Variant without the parent's sem_wait after pthread_create.
CoroutineCreateNoWait(r) ==
    LET ch == Cur(r).ch IN
    /\ Cur(r).op = "create"
    /\ func' = [func EXCEPT ![ch] = TRUE]
    /\ value' = [value EXCEPT ![ch] = Arg]
    /\ inChild' = [inChild EXCEPT ![ch] = 1]
    /\ sem' = [sem EXCEPT ![ch] = [i \in 0..1 |-> 0]]
    /\ phase' = [phase EXCEPT ![r] = "create", ![ch] = "run"]
    /\ stage' = [stage EXCEPT ![ch] = "start"]
    /\ UNCHANGED <<pc, iters, released, put, got, waitOn>>

CoroutineCreate(r) ==
    LET ch == Cur(r).ch IN
    /\ Cur(r).op = "create"
    /\ func' = [func EXCEPT ![ch] = TRUE]
    /\ value' = [value EXCEPT ![ch] = Arg]
    /\ inChild' = [inChild EXCEPT ![ch] = 1]
    /\ sem' = [sem EXCEPT ![ch] = [i \in 0..1 |-> 0]]
    /\ phase' = [phase EXCEPT ![r] = "create", ![ch] = "run"]
    /\ stage' = [stage EXCEPT ![r] = "posted", ![ch] = "start"]
    /\ waitOn' = [waitOn EXCEPT ![r] = <<ch, 0>>]
    /\ UNCHANGED <<pc, iters, released, put, got>>

\* coroutine_create_given_memory ignores the block: the thread gets a stack
\* of its own, and the record is allocated as by coroutine_create.
CoroutineCreateGivenMemory(r) == CoroutineCreate(r)

(***************************************************************************)
(* springboard, on the new thread: take the argument out of value and      *)
(* leave not_filled, then call the child's function.                       *)
(***************************************************************************)
SpringboardStart(t) ==
    /\ stage[t] = "start"
    /\ value' = [value EXCEPT ![t] = NotFilled]
    /\ stage' = [stage EXCEPT ![t] = "run"]
    /\ UNCHANGED <<pc, phase, iters, func, released, put, got, sem, inChild, waitOn>>

\* sem_wait in coroutine_create returned: the channel is returned.
CreateReturn(r) ==
    /\ phase[r] = "create"
    /\ phase' = [phase EXCEPT ![r] = "run"]
    /\ pc' = [pc EXCEPT ![r] = @ + 1]
    /\ UNCHANGED <<iters, func, value, released, put, got, sem, inChild, stage, waitOn>>

\* yield_to(channel, pointer): store the datum, then context_switch.
YieldTo(r) ==
    LET ch == Cur(r).ch
        d  == SendDir(r, ch)
    IN
    /\ Cur(r).op = "yield"
    /\ value' = [value EXCEPT ![ch] = <<d, put[ch][d] + 1>>]
    /\ put' = [put EXCEPT ![ch][d] = @ + 1]
    /\ ContextSwitch(r, ch)
    /\ pc' = [pc EXCEPT ![r] = @ + 1]
    /\ UNCHANGED <<phase, iters, func, released, got>>

\* The part of from() after the optional context_switch.
FromReturn(r) ==
    LET ch  == Cur(r).ch
        ret == value[ch]
    IN
    \/ /\ ~func[ch]
       /\ JoinAndCleanup(ch)
       /\ pc' = [pc EXCEPT ![r] = Cur(r).to]
       /\ UNCHANGED <<value, got>>
    \/ /\ func[ch]
       /\ value' = [value EXCEPT ![ch] = NotFilled]
       /\ got' = IF ret = Null THEN got
                 ELSE [got EXCEPT ![ch][RecvDir(r, ch)] = Append(@, ret)]
       /\ pc' = [pc EXCEPT ![r] = IF ret = Null THEN Cur(r).to ELSE @ + 1]
       /\ UNCHANGED released

\* from(channel): context_switch first if the child is alive and the slot empty.
From(r) ==
    LET ch == Cur(r).ch IN
    /\ Cur(r).op = "from"
    /\ \/ /\ func[ch] /\ value[ch] = NotFilled
          /\ ContextSwitch(r, ch)
          /\ phase' = [phase EXCEPT ![r] = "from"]
          /\ UNCHANGED <<pc, value, released, got>>
       \/ /\ ~(func[ch] /\ value[ch] = NotFilled)
          /\ FromReturn(r)
          /\ UNCHANGED <<phase, sem, inChild, stage, waitOn>>
    /\ UNCHANGED <<iters, func, put>>

\* from() woken after its context_switch.
FromResume(r) ==
    /\ phase[r] = "from"
    /\ FromReturn(r)
    /\ phase' = [phase EXCEPT ![r] = "run"]
    /\ UNCHANGED <<iters, func, put, sem, inChild, stage, waitOn>>

\* close_and_join: while (func) yield_to(channel, NULL); then join and clean up.
CloseAndJoin(r) ==
    LET ch == Cur(r).ch IN
    /\ Cur(r).op = "close"
    /\ \/ /\ func[ch]
          /\ value' = [value EXCEPT ![ch] = Null]
          /\ ContextSwitch(r, ch)
          /\ UNCHANGED <<pc, released>>
       \/ /\ ~func[ch]
          /\ JoinAndCleanup(ch)
          /\ pc' = [pc EXCEPT ![r] = @ + 1]
          /\ UNCHANGED <<value, sem, inChild, stage, waitOn>>
    /\ UNCHANGED <<phase, iters, func, put, got>>

\* coroutine_switch: context_switch only if the child has not returned.
CoroutineSwitch(r) ==
    LET ch == Cur(r).ch IN
    /\ Cur(r).op = "switch"
    /\ IF func[ch] THEN ContextSwitch(r, ch)
       ELSE UNCHANGED <<sem, inChild, stage, waitOn>>
    /\ pc' = [pc EXCEPT ![r] = @ + 1]
    /\ UNCHANGED <<phase, iters, func, value, released, put, got>>

(***************************************************************************)
(* The child's function returns into the springboard: func = NULL, then    *)
(* sem_post(sem + 0) wakes the parent.  in_child is left as it was.        *)
(***************************************************************************)
SpringboardReturn(r) ==
    /\ Cur(r).op = "return"
    /\ r # Root
    /\ func' = [func EXCEPT ![r] = FALSE]
    /\ sem' = [sem EXCEPT ![r][0] = @ + 1]
    /\ phase' = [phase EXCEPT ![r] = "dead"]
    /\ stage' = [stage EXCEPT ![r] = "exiting"]
    /\ UNCHANGED <<pc, iters, value, released, put, got, inChild, waitOn>>

\* The springboard returns NULL: the child's thread terminates.
ThreadExit(r) ==
    /\ stage[r] = "exiting"
    /\ stage' = [stage EXCEPT ![r] = "exited"]
    /\ UNCHANGED <<pc, phase, iters, func, value, released, put, got, sem, inChild, waitOn>>

\* Root's code returns.
RootReturn(r) ==
    /\ Cur(r).op = "return"
    /\ r = Root
    /\ phase' = [phase EXCEPT ![r] = "done"]
    /\ UNCHANGED <<pc, iters, func, value, released, put, got, sem, inChild, stage, waitOn>>

\* Control flow of the user code, as in Coroutine.
Loop(r) ==
    /\ Cur(r).op = "loop"
    /\ \/ /\ iters[r][pc[r]] < MaxIter
          /\ iters' = [iters EXCEPT ![r][pc[r]] = @ + 1]
          /\ pc' = [pc EXCEPT ![r] = @ + 1]
       \/ /\ pc' = [pc EXCEPT ![r] = Cur(r).to]
          /\ UNCHANGED iters
    /\ UNCHANGED <<phase, func, value, released, put, got, sem, inChild, stage, waitOn>>

Branch(r) ==
    /\ Cur(r).op = "branch"
    /\ \E t \in Cur(r).to : pc' = [pc EXCEPT ![r] = t]
    /\ UNCHANGED <<phase, iters, func, value, released, put, got, sem, inChild, stage, waitOn>>

Goto(r) ==
    /\ Cur(r).op = "goto"
    /\ pc' = [pc EXCEPT ![r] = Cur(r).to]
    /\ UNCHANGED <<phase, iters, func, value, released, put, got, sem, inChild, stage, waitOn>>

\* Thread r is executing and is at an instruction of its user code.
AtInstr(r) == phase[r] = "run" /\ stage[r] = "run"

\* One step of thread r.
Thread(r) ==
    \/ /\ AtInstr(r)
       /\ \/ Cur(r).alloc /\ CoroutineCreate(r)
          \/ ~Cur(r).alloc /\ CoroutineCreateGivenMemory(r)
          \/ YieldTo(r)
          \/ From(r)
          \/ CloseAndJoin(r)
          \/ CoroutineSwitch(r)
          \/ SpringboardReturn(r)
          \/ RootReturn(r)
          \/ Loop(r)
          \/ Goto(r)
          \/ Branch(r)
    \/ SpringboardStart(r)
    \/ stage[r] = "run" /\ CreateReturn(r)
    \/ stage[r] = "run" /\ FromResume(r)
    \/ BeginWait(r)
    \/ Acquire(r)
    \/ ThreadExit(r)

\* After Root returned (and so joined every thread), nothing is left to do.
Finished ==
    /\ phase[Root] = "done"
    /\ UNCHANGED vars

Next == (\E r \in Coroutines : Thread(r)) \/ Finished

(***************************************************************************)
(* The OS schedules every thread that can run: a thread that is runnable   *)
(* (a semaphore it waits on is positive, or it is not blocked) keeps being *)
(* runnable until it steps, since nobody else waits on its semaphore.      *)
(***************************************************************************)
Spec == Init /\ [][Next]_vars /\ \A r \in Coroutines : WF_vars(Thread(r))
-----------------------------------------------------------------------------
TypeOK ==
    /\ pc \in [Coroutines -> Nat]
    /\ phase \in [Coroutines -> {"unborn", "run", "create", "from", "dead", "done"}]
    /\ \A c \in Coroutines : iters[c] \in [DOMAIN Prog[c] -> 0..MaxIter]
    /\ func \in [Children -> BOOLEAN]
    /\ value \in [Children -> Values]
    /\ released \in [Children -> BOOLEAN]
    /\ put \in [Children -> [Dirs -> Nat]]
    /\ got \in [Children -> [Dirs -> Seq(Values)]]
    /\ sem \in [Children -> [0..1 -> Nat]]
    /\ inChild \in [Children -> 0..1]
    /\ stage \in [Coroutines -> {"start", "run", "posted", "waiting", "exiting", "exited"}]
    /\ waitOn \in [Coroutines -> Coroutines \X (0..1)]

\* Thread c is past sem_wait and running code of the lineage.
Executing(c) == phase[c] \in {"run", "create", "from", "done"} /\ stage[c] \in {"start", "run"}

(***************************************************************************)
(* One control token per lineage: at every moment either exactly one       *)
(* thread executes, and every semaphore is zero, or no thread executes and *)
(* exactly one semaphore holds exactly one post.  So the threads never     *)
(* touch channel->value or channel->func at the same time, and no post is  *)
(* lost or doubled by the in_child bookkeeping of context_switch, the      *)
(* create hand-shake or the springboard's final post.                      *)
(***************************************************************************)
SingleControlToken ==
    /\ \A ch \in Children, i \in 0..1 : sem[ch][i] <= 1
    /\ Cardinality({c \in Coroutines : Executing(c)})
         + Cardinality({s \in Children \X (0..1) : sem[s[1]][s[2]] > 0}) = 1

-----------------------------------------------------------------------------
(***************************************************************************)
(* Refinement mapping to the native backend.  The coroutine that "runs" is *)
(* the one holding the control token: the thread executing, or the one     *)
(* whose semaphore has been posted.  A channel's inactive context holds    *)
(* the parent while in_child is 1 and the child is alive, and the child    *)
(* otherwise (in_child is stale after the springboard, so func decides).   *)
(* free_func has no field here; it is what coroutine_create would have set *)
(* once create has returned.                                               *)
(***************************************************************************)
HoldsToken(c) ==
    /\ phase[c] \in {"run", "create", "from", "done"}
    /\ \/ stage[c] \in {"start", "run"}
       \/ stage[c] \in {"posted", "waiting"} /\ sem[waitOn[c][1]][waitOn[c][2]] > 0

Holder == IF \E c \in Coroutines : HoldsToken(c)
          THEN CHOOSE c \in Coroutines : HoldsToken(c) ELSE Root

CtxMap == [ch \in Children |-> IF func[ch] /\ inChild[ch] = 1 THEN ParentOf(ch) ELSE ch]

FreeFuncMap ==
    [ch \in Children |->
        /\ phase[ch] # "unborn"
        /\ ~(phase[ParentOf(ch)] = "create" /\ Cur(ParentOf(ch)).ch = ch)
        /\ AllocOf(ch)]

\* The child has value = arg until the springboard takes it; natively that
\* happens inside the create step.
ValueMap == [ch \in Children |-> IF stage[ch] = "start" THEN NotFilled ELSE value[ch]]

\* The record and stacks are always malloc'd here, and always freed by the
\* join; natively only a block coroutine_create allocated is freed.
ReleasedMap == [ch \in Children |-> released[ch] /\ AllocOf(ch)]

Native == INSTANCE Coroutine
            WITH running <- Holder, ctx <- CtxMap, value <- ValueMap,
                 freeFunc <- FreeFuncMap, released <- ReleasedMap

(***************************************************************************)
(* The thread backend implements the native one: every step of the         *)
(* threads is a step of Coroutine's Next or leaves its state alone, and    *)
(* under the OS's fair scheduling the mapped behaviour is as live as       *)
(* Coroutine's (so every program also terminates here).                    *)
(***************************************************************************)
CoroutineRefinement == Native!Spec

=============================================================================
