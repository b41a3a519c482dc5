---------------------------- MODULE CoroutineCond ----------------------------
(***************************************************************************)
(* The mutex/condition-variable pthread backend (the first coroutine.c     *)
(* variant of part_004): every coroutine is an OS thread; the threads of   *)
(* one lineage share a tree mutex (reached through the thread-local        *)
(* _tls_tree_mutex, reference-counted by its channels) and only the one    *)
(* holding it runs.  A channel hands control over with its own condition   *)
(* variable and the flag in_child; a woken thread re-checks in_child and   *)
(* waits again if the wake-up was not meant for it (spurious wake-ups are  *)
(* allowed at any time).                                                   *)
(*                                                                         *)
(* stage[c] is where thread c is:                                          *)
(*   "start"    created, springboard blocked in pthread_mutex_lock,        *)
(*   "run"      executing (holding the mutex while it is alive),           *)
(*   "condwait" in pthread_cond_wait on channel waitOn[c][1],              *)
(*   "relock"   woken, reacquiring the mutex inside pthread_cond_wait,     *)
(*   "exiting"  the springboard unlocked for the last time and returns,    *)
(*   "exited"   the thread has terminated.                                 *)
(* waitOn[c][2] is the local in_child_at_entry the wait loop compares      *)
(* with (0 for coroutine_create's loop, which waits while in_child).       *)
(***************************************************************************)
EXTENDS CoroutineProgram

NoOwner == "no_owner"

VARIABLES
    pc, phase, iters, func, value, released, put, got,
    inChild,    \* inChild[ch]: channel->in_child (0 or 1)
    stage,      \* stage[c]: see above
    waitOn,     \* waitOn[c]: <<ch, in_child_at_entry>>
    owner,      \* the thread holding the tree mutex, or NoOwner
    count,      \* tree_mutex->count
    treeAlive,  \* the tree mutex is allocated (not yet destroyed and freed)
    tls         \* tls[c]: c's _tls_tree_mutex points to the tree mutex

vars == <<pc, phase, iters, func, value, released, put, got,
          inChild, stage, waitOn, owner, count, treeAlive, tls>>

Cur(c) == Prog[c][pc[c]]

-----------------------------------------------------------------------------
(***************************************************************************)
(* context_switch(channel): flip in_child, signal the channel's condition  *)
(* (waking its waiter; POSIX lets a signal wake every waiter, and there is *)
(* at most one) and wait on it, which releases the mutex.                  *)
(***************************************************************************)
\* pthread_cond_signal(&channel->cond): its waiters go to reacquire the mutex.
Signal(ch) ==
    [t \in Coroutines |->
        IF stage[t] = "condwait" /\ waitOn[t][1] = ch THEN "relock" ELSE stage[t]]

ContextSwitch(r, ch) ==
    /\ inChild' = [inChild EXCEPT ![ch] = 1 - @]
    /\ stage' = [Signal(ch) EXCEPT ![r] = "condwait"]
    /\ waitOn' = [waitOn EXCEPT ![r] = <<ch, inChild[ch]>>]
    /\ owner' = NoOwner

\* Variant that waits once instead of looping on in_child (if for do/while).
RelockNoRecheck(t) ==
    /\ stage[t] = "relock"
    /\ owner = NoOwner
    /\ owner' = t
    /\ stage' = [stage EXCEPT ![t] = "run"]
    /\ UNCHANGED <<pc, phase, iters, func, value, released, put, got,
                   inChild, waitOn, count, treeAlive, tls>>

(***************************************************************************)
(* pthread_cond_wait returns once the woken thread has the mutex again;    *)
(* the do/while then compares in_child with the value it had on entry and  *)
(* waits again (releasing the mutex) if they differ.                       *)
(***************************************************************************)
Relock(t) ==
    LET ch == waitOn[t][1] IN
    /\ stage[t] = "relock"
    /\ owner = NoOwner
    /\ IF inChild[ch] = waitOn[t][2]
       THEN /\ owner' = t
            /\ stage' = [stage EXCEPT ![t] = "run"]
       ELSE /\ stage' = [stage EXCEPT ![t] = "condwait"]
            /\ UNCHANGED owner
    /\ UNCHANGED <<pc, phase, iters, func, value, released, put, got,
                   inChild, waitOn, count, treeAlive, tls>>

\* A waiter wakes up without a signal.
SpuriousWakeup(t) ==
    /\ stage[t] = "condwait"
    /\ stage' = [stage EXCEPT ![t] = "relock"]
    /\ UNCHANGED <<pc, phase, iters, func, value, released, put, got,
                   inChild, waitOn, owner, count, treeAlive, tls>>

\* The springboard's first lines: point the thread's TLS at the tree mutex,
\* lock it, take the argument and leave not_filled.
StartLock(t) ==
    /\ stage[t] = "start"
    /\ phase[t] = "run"
    /\ owner = NoOwner
    /\ owner' = t
    /\ tls' = [tls EXCEPT ![t] = TRUE]
    /\ value' = [value EXCEPT ![t] = NotFilled]
    /\ stage' = [stage EXCEPT ![t] = "run"]
    /\ UNCHANGED <<pc, phase, iters, func, released, put, got,
                   inChild, waitOn, count, treeAlive>>

(***************************************************************************)
(* channel_join_and_cleanup, called with the mutex held: pthread_join      *)
(* waits for the child's thread; the count drops, and the last channel     *)
(* unlocks, destroys and frees the tree mutex and clears the caller's TLS. *)
(***************************************************************************)
JoinAndCleanup(r, ch) ==
    /\ stage[ch] = "exited"
    /\ count' = count - 1
    /\ IF count - 1 = 0
       THEN /\ owner' = NoOwner
            /\ treeAlive' = FALSE
            /\ tls' = [tls EXCEPT ![r] = FALSE]
       ELSE UNCHANGED <<owner, treeAlive, tls>>
    /\ released' = [released EXCEPT ![ch] = TRUE]

Init ==
    /\ pc = [c \in Coroutines |-> 1]
    /\ phase = [c \in Coroutines |-> IF c = Root THEN "run" ELSE "unborn"]
    /\ iters = [c \in Coroutines |-> [i \in DOMAIN Prog[c] |-> 0]]
    /\ func = [ch \in Children |-> FALSE]
    /\ value = [ch \in Children |-> NotFilled]
    /\ released = [ch \in Children |-> FALSE]
    /\ put = [ch \in Children |-> [d \in Dirs |-> 0]]
    /\ got = [ch \in Children |-> [d \in Dirs |-> <<>>]]
    /\ inChild = [ch \in Children |-> 0]
    /\ stage = [c \in Coroutines |-> IF c = Root THEN "run" ELSE "start"]
    /\ waitOn = [c \in Coroutines |-> <<c, 0>>]
    /\ owner = NoOwner
    /\ count = 0
    /\ treeAlive = FALSE
    /\ tls = [c \in Coroutines |-> FALSE]

\* Variant that counts only the channel that allocated the tree mutex.
CoroutineCreateCountFirstOnly(r) ==
    LET ch == Cur(r).ch IN
    /\ Cur(r).op = "create"
    /\ treeAlive' = TRUE
    /\ tls' = [tls EXCEPT ![r] = TRUE]
    /\ count' = IF tls[r] THEN count ELSE 1
    /\ func' = [func EXCEPT ![ch] = TRUE]
    /\ value' = [value EXCEPT ![ch] = Arg]
    /\ inChild' = [inChild EXCEPT ![ch] = 1]
    /\ phase' = [phase EXCEPT ![r] = "create", ![ch] = "run"]
    /\ stage' = [Signal(ch) EXCEPT ![r] = "condwait", ![ch] = "start"]
    /\ waitOn' = [waitOn EXCEPT ![r] = <<ch, 0>>]
    /\ owner' = NoOwner
    /\ UNCHANGED <<pc, iters, released, put, got>>

(***************************************************************************)
(* coroutine_create: a thread without a tree mutex allocates one and locks *)
(* it; the record gets the tree mutex, func, value = arg and in_child = 1, *)
(* the count goes up, the child's thread is started (it blocks on the      *)
(* mutex), the condition is signalled and the parent waits while          *)
(* in_child, releasing the mutex.                                          *)
(***************************************************************************)
CoroutineCreate(r) ==
    LET ch == Cur(r).ch IN
    /\ Cur(r).op = "create"
    /\ treeAlive' = TRUE
    /\ tls' = [tls EXCEPT ![r] = TRUE]
    /\ count' = IF tls[r] THEN count + 1 ELSE 1
    /\ func' = [func EXCEPT ![ch] = TRUE]
    /\ value' = [value EXCEPT ![ch] = Arg]
    /\ inChild' = [inChild EXCEPT ![ch] = 1]
    /\ phase' = [phase EXCEPT ![r] = "create", ![ch] = "run"]
    /\ stage' = [Signal(ch) EXCEPT ![r] = "condwait", ![ch] = "start"]
    /\ waitOn' = [waitOn EXCEPT ![r] = <<ch, 0>>]
    /\ owner' = NoOwner
    /\ UNCHANGED <<pc, iters, released, put, got>>

\* The wait in coroutine_create ended: the channel is returned.
CreateReturn(r) ==
    /\ phase[r] = "create"
    /\ phase' = [phase EXCEPT ![r] = "run"]
    /\ pc' = [pc EXCEPT ![r] = @ + 1]
    /\ UNCHANGED <<iters, func, value, released, put, got,
                   inChild, stage, waitOn, owner, count, treeAlive, tls>>

\* yield_to(channel, pointer): store the datum, then context_switch.
YieldTo(r) ==
    LET ch == Cur(r).ch
        d  == SendDir(r, ch)
    IN
    /\ Cur(r).op = "yield"
    /\ value' = [value EXCEPT ![ch] = <<d, put[ch][d] + 1>>]
    /\ put' = [put EXCEPT ![ch][d] = @ + 1]
    /\ ContextSwitch(r, ch)
    /\ pc' = [pc EXCEPT ![r] = @ + 1]
    /\ UNCHANGED <<phase, iters, func, released, got, count, treeAlive, tls>>

\* The part of from() after the optional context_switch.
FromReturn(r) ==
    LET ch  == Cur(r).ch
        ret == value[ch]
    IN
    \/ /\ ~func[ch]
       /\ JoinAndCleanup(r, ch)
       /\ pc' = [pc EXCEPT ![r] = Cur(r).to]
       /\ UNCHANGED <<value, got>>
    \/ /\ func[ch]
       /\ value' = [value EXCEPT ![ch] = NotFilled]
       /\ got' = IF ret = Null THEN got
                 ELSE [got EXCEPT ![ch][RecvDir(r, ch)] = Append(@, ret)]
       /\ pc' = [pc EXCEPT ![r] = IF ret = Null THEN Cur(r).to ELSE @ + 1]
       /\ UNCHANGED <<released, owner, count, treeAlive, tls>>

\* from(channel): context_switch first if the child is alive and the slot empty.
From(r) ==
    LET ch == Cur(r).ch IN
    /\ Cur(r).op = "from"
    /\ \/ /\ func[ch] /\ value[ch] = NotFilled
          /\ ContextSwitch(r, ch)
          /\ phase' = [phase EXCEPT ![r] = "from"]
          /\ UNCHANGED <<pc, value, released, got, count, treeAlive, tls>>
       \/ /\ ~(func[ch] /\ value[ch] = NotFilled)
          /\ FromReturn(r)
          /\ UNCHANGED <<phase, inChild, stage, waitOn>>
    /\ UNCHANGED <<iters, func, put>>

\* from() back from its context_switch.
FromResume(r) ==
    /\ phase[r] = "from"
    /\ FromReturn(r)
    /\ phase' = [phase EXCEPT ![r] = "run"]
    /\ UNCHANGED <<iters, func, put, inChild, stage, waitOn>>

\* close_and_join: while (func) yield_to(channel, NULL); then join and clean up.
CloseAndJoin(r) ==
    LET ch == Cur(r).ch IN
    /\ Cur(r).op = "close"
    /\ \/ /\ func[ch]
          /\ value' = [value EXCEPT ![ch] = Null]
          /\ ContextSwitch(r, ch)
          /\ UNCHANGED <<pc, released, count, treeAlive, tls>>
       \/ /\ ~func[ch]
          /\ JoinAndCleanup(r, ch)
          /\ pc' = [pc EXCEPT ![r] = @ + 1]
          /\ UNCHANGED <<value, inChild, stage, waitOn>>
    /\ UNCHANGED <<phase, iters, func, put, got>>

\* coroutine_switch: context_switch only if the child has not returned.
CoroutineSwitch(r) ==
    LET ch == Cur(r).ch IN
    /\ Cur(r).op = "switch"
    /\ IF func[ch] THEN ContextSwitch(r, ch)
       ELSE UNCHANGED <<inChild, stage, waitOn, owner>>
    /\ pc' = [pc EXCEPT ![r] = @ + 1]
    /\ UNCHANGED <<phase, iters, func, value, released, put, got, count, treeAlive, tls>>

(***************************************************************************)
(* The child's function returns into the springboard: func = NULL,         *)
(* in_child = 0, signal the parent and unlock the tree mutex.              *)
(***************************************************************************)
SpringboardReturn(r) ==
    /\ Cur(r).op = "return"
    /\ r # Root
    /\ func' = [func EXCEPT ![r] = FALSE]
    /\ inChild' = [inChild EXCEPT ![r] = 0]
    /\ stage' = [Signal(r) EXCEPT ![r] = "exiting"]
    /\ owner' = NoOwner
    /\ phase' = [phase EXCEPT ![r] = "dead"]
    /\ UNCHANGED <<pc, iters, value, released, put, got, waitOn, count, treeAlive, tls>>

\* The springboard returns NULL: the child's thread terminates.
ThreadExit(r) ==
    /\ stage[r] = "exiting"
    /\ stage' = [stage EXCEPT ![r] = "exited"]
    /\ UNCHANGED <<pc, phase, iters, func, value, released, put, got,
                   inChild, waitOn, owner, count, treeAlive, tls>>

\* Root's code returns.
RootReturn(r) ==
    /\ Cur(r).op = "return"
    /\ r = Root
    /\ phase' = [phase EXCEPT ![r] = "done"]
    /\ UNCHANGED <<pc, iters, func, value, released, put, got,
                   inChild, stage, waitOn, owner, count, treeAlive, tls>>

\* Control flow of the user code, as in Coroutine.
Loop(r) ==
    /\ Cur(r).op = "loop"
    /\ \/ /\ iters[r][pc[r]] < MaxIter
          /\ iters' = [iters EXCEPT ![r][pc[r]] = @ + 1]
          /\ pc' = [pc EXCEPT ![r] = @ + 1]
       \/ /\ pc' = [pc EXCEPT ![r] = Cur(r).to]
          /\ UNCHANGED iters
    /\ UNCHANGED <<phase, func, value, released, put, got,
                   inChild, stage, waitOn, owner, count, treeAlive, tls>>

Branch(r) ==
    /\ Cur(r).op = "branch"
    /\ \E t \in Cur(r).to : pc' = [pc EXCEPT ![r] = t]
    /\ UNCHANGED <<phase, iters, func, value, released, put, got,
                   inChild, stage, waitOn, owner, count, treeAlive, tls>>

Goto(r) ==
    /\ Cur(r).op = "goto"
    /\ pc' = [pc EXCEPT ![r] = Cur(r).to]
    /\ UNCHANGED <<phase, iters, func, value, released, put, got,
                   inChild, stage, waitOn, owner, count, treeAlive, tls>>

\* Thread r is executing and is at an instruction of its user code.
AtInstr(r) == phase[r] = "run" /\ stage[r] = "run"

\* One step of thread r, other than a spurious wake-up.
Thread(r) ==
    \/ /\ AtInstr(r)
       /\ \/ CoroutineCreate(r)
          \/ YieldTo(r)
          \/ From(r)
          \/ CloseAndJoin(r)
          \/ CoroutineSwitch(r)
          \/ SpringboardReturn(r)
          \/ RootReturn(r)
          \/ Loop(r)
          \/ Goto(r)
          \/ Branch(r)
    \/ stage[r] = "run" /\ CreateReturn(r)
    \/ stage[r] = "run" /\ FromResume(r)
    \/ StartLock(r)
    \/ Relock(r)
    \/ ThreadExit(r)

\* After Root returned (and so joined every thread), nothing is left to do.
Finished ==
    /\ phase[Root] = "done"
    /\ UNCHANGED vars

Next == (\E r \in Coroutines : Thread(r) \/ SpuriousWakeup(r)) \/ Finished

(***************************************************************************)
(* Every thread that can step eventually does.  Weak fairness is enough    *)
(* for the mutex too: a woken thread whose in_child test fails holds the   *)
(* mutex only for that test (one step here) and waits again, so a free     *)
(* mutex stays free until the thread whose test succeeds takes it.         *)
(* Spurious wake-ups themselves are never required to happen.              *)
(***************************************************************************)
Spec == Init /\ [][Next]_vars /\ \A r \in Coroutines : WF_vars(Thread(r))

-----------------------------------------------------------------------------
TypeOK ==
    /\ pc \in [Coroutines -> Nat]
    /\ phase \in [Coroutines -> {"unborn", "run", "create", "from", "dead", "done"}]
    /\ \A c \in Coroutines : iters[c] \in [DOMAIN Prog[c] -> 0..MaxIter]
    /\ func \in [Children -> BOOLEAN]
    /\ value \in [Children -> Values]
    /\ released \in [Children -> BOOLEAN]
    /\ put \in [Children -> [Dirs -> Nat]]
    /\ got \in [Children -> [Dirs -> Seq(Values)]]
    /\ inChild \in [Children -> 0..1]
    /\ stage \in [Coroutines -> {"start", "run", "condwait", "relock", "exiting", "exited"}]
    /\ waitOn \in [Coroutines -> Coroutines \X (0..1)]
    /\ owner \in Coroutines \cup {NoOwner}
    /\ count \in Nat
    /\ treeAlive \in BOOLEAN
    /\ tls \in [Coroutines -> BOOLEAN]

\* Thread c runs code of the lineage (past its locks and waits).
Executing(c) == phase[c] \in {"run", "create", "from", "done"} /\ stage[c] = "run"

\* The thread blocks on, or waits with, the tree mutex.
UsesMutex(c) ==
    \/ stage[c] \in {"condwait", "relock"}
    \/ stage[c] = "start" /\ phase[c] = "run"

(***************************************************************************)
(* Tree mutex lifetime and exclusion: the mutex is allocated exactly while *)
(* some channel of the lineage has not been cleaned up; while it is, every *)
(* thread that runs holds it (so the threads never run together); and no   *)
(* thread waits on, relocks or locks it after channel_join_and_cleanup     *)
(* destroyed and freed it on the count reaching zero; a thread whose TLS  *)
(* still points to the freed mutex has terminated.                         *)
(***************************************************************************)
TreeMutexSafety ==
    /\ treeAlive <=> \E ch \in Children : phase[ch] # "unborn" /\ ~released[ch]
    /\ treeAlive => \A c \in Coroutines : Executing(c) => owner = c
    /\ \A c \in Coroutines : UsesMutex(c) => treeAlive
    /\ \A c \in Coroutines : tls[c] /\ ~treeAlive => stage[c] = "exited"

-----------------------------------------------------------------------------
(***************************************************************************)
(* Refinement mapping to the native backend: the coroutine that "runs" is  *)
(* the executing thread, a child not yet past its first lock, or the       *)
(* waiter whose in_child test would now succeed.  A child that has not     *)
(* locked yet has not taken its argument, so its value maps to not_filled. *)
(***************************************************************************)
HoldsToken(c) ==
    /\ phase[c] \in {"run", "create", "from", "done"}
    /\ \/ stage[c] \in {"run", "start"}
       \/ stage[c] \in {"condwait", "relock"} /\ inChild[waitOn[c][1]] = waitOn[c][2]

Holder == IF \E c \in Coroutines : HoldsToken(c)
          THEN CHOOSE c \in Coroutines : HoldsToken(c) ELSE Root

CtxMap == [ch \in Children |-> IF func[ch] /\ inChild[ch] = 1 THEN ParentOf(ch) ELSE ch]

ValueMap == [ch \in Children |-> IF stage[ch] = "start" THEN NotFilled ELSE value[ch]]

FreeFuncMap ==
    [ch \in Children |->
        /\ phase[ch] # "unborn"
        /\ ~(phase[ParentOf(ch)] = "create" /\ Cur(ParentOf(ch)).ch = ch)
        /\ AllocOf(ch)]

\* The record and stacks are always malloc'd here, and always freed by the
\* join; natively only a block coroutine_create allocated is freed.
ReleasedMap == [ch \in Children |-> released[ch] /\ AllocOf(ch)]

Native == INSTANCE Coroutine
            WITH running <- Holder, ctx <- CtxMap, value <- ValueMap,
                 freeFunc <- FreeFuncMap, released <- ReleasedMap

(***************************************************************************)
(* The condition-variable backend implements the native one, spurious      *)
(* wake-ups and all: every step is a step of Coroutine's Next or leaves    *)
(* its state alone, and under the fairness above the mapped behaviour is   *)
(* as live as Coroutine's, so no hand-off is lost and every program ends.  *)
(***************************************************************************)
CoroutineRefinement == Native!Spec
=============================================================================
