------------------------ MODULE CoroutineSemThreadLimit ------------------------
(***************************************************************************)
(* The semaphore backend when the process runs out of threads.            *)
(* coroutine_create does not look at what pthread_create returns: when it  *)
(* fails (EAGAIN once the system's thread limit is reached) no springboard *)
(* ever runs, and the parent goes on to sem_wait(channel->sem + 0), which  *)
(* nobody will post.  coroutine_create_given_memory calls coroutine_create *)
(* on this backend, so it shares the failure.                              *)
(*                                                                         *)
(* A thread exists from pthread_create until pthread_join has reaped it   *)
(* (a joinable thread keeps its stack until then).  MaxThreads is the     *)
(* number the system lets exist at once, main's thread included.          *)
(***************************************************************************)
EXTENDS CoroutineSem

CONSTANT MaxThreads

\* The threads that exist: main's, and every child created and not yet joined.
Threads == {Root} \cup {c \in Children : phase[c] # "unborn" /\ ~released[c]}

AtLimit == Cardinality(Threads) >= MaxThreads

(***************************************************************************)
(* coroutine_create with pthread_create failing: the record is allocated   *)
(* and initialised and the semaphores created as before, but no thread     *)
(* starts; the parent still waits on sem[0].                               *)
(***************************************************************************)
PthreadCreateFails(r) ==
    LET ch == Cur(r).ch IN
    /\ Cur(r).op = "create"
    /\ func' = [func EXCEPT ![ch] = TRUE]
    /\ value' = [value EXCEPT ![ch] = Arg]
    /\ inChild' = [inChild EXCEPT ![ch] = 1]
    /\ sem' = [sem EXCEPT ![ch] = [i \in 0..1 |-> 0]]
    /\ phase' = [phase EXCEPT ![r] = "create"]
    /\ stage' = [stage EXCEPT ![r] = "posted"]
    /\ waitOn' = [waitOn EXCEPT ![r] = <<ch, 0>>]
    /\ UNCHANGED <<pc, iters, released, put, got>>

\* One step of thread r: a create succeeds below the limit and fails at it.
ThreadTL(r) ==
    \/ /\ ~(AtInstr(r) /\ Cur(r).op = "create" /\ AtLimit)
       /\ Thread(r)
    \/ /\ AtInstr(r) /\ AtLimit
       /\ PthreadCreateFails(r)

NextTL == (\E r \in Coroutines : ThreadTL(r)) \/ Finished

\* The OS schedules every runnable thread, as in Spec.
SpecTL == Init /\ [][NextTL]_vars /\ \A r \in Coroutines : WF_vars(ThreadTL(r))

(***************************************************************************)
(* spec.md section 7: the hosted constructor either returns a channel or  *)
(* aborts the process, and the given-memory constructor cannot fail.  So  *)
(* a thread that has entered coroutine_create (or the given-memory one)   *)
(* eventually returns from it.                                             *)
(***************************************************************************)
CreateCompletes == \A r \in Coroutines : phase[r] = "create" ~> phase[r] # "create"
=============================================================================
