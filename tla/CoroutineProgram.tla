-------------------------- MODULE CoroutineProgram --------------------------
(***************************************************************************)
(* What every backend of the library shares: the lineage of coroutines,    *)
(* the contents a channel's value can have, and the instructions of the    *)
(* user programs that call the API of coroutine.h.  The backends           *)
(* (Coroutine for coroutine.c, CoroutineSem for coroutine_using_pthreads.c)*)
(* interpret the same programs over their own state.                       *)
(*                                                                         *)
(* A channel is named by its child: every coroutine but Root is the child  *)
(* of exactly one channel, and that channel has the same name.             *)
(***************************************************************************)
EXTENDS Naturals, Sequences, FiniteSets

CONSTANTS
    Coroutines,  \* the coroutines of the lineage
    Root,        \* the one running on the thread's own stack
    Prog,        \* Prog[c]: the user code of c, a sequence of instructions
    MaxIter      \* how many times one coroutine may go round its loops

ASSUME Root \in Coroutines /\ MaxIter \in Nat

Children == Coroutines \ {Root}

(***************************************************************************)
(* Contents of channel->value.  NotFilled is the private sentinel          *)
(* not_filled, Null is NULL, Arg the argument given at creation.  A datum  *)
(* yielded by user code is a token <<d, n>>: the n-th datum sent in        *)
(* direction d ("up" is child to parent).  The three special pointers     *)
(* are pairs as well, with number 0, so that any two values compare.      *)
(***************************************************************************)
NotFilled == <<"not_filled", 0>>
Null == <<"NULL", 0>>
Arg == <<"arg", 0>>
Dirs == {"up", "down"}
Values == {NotFilled, Null, Arg} \cup (Dirs \X Nat)

\* The direction of a datum that c sends over channel ch, and the one it receives.
SendDir(c, ch) == IF c = ch THEN "up" ELSE "down"
RecvDir(c, ch) == IF c = ch THEN "down" ELSE "up"

(***************************************************************************)
(* Instructions of the user programs.  "loop" models a loop whose exit     *)
(* depends on data the model abstracts: it either goes on to the next      *)
(* instruction (at most MaxIter times) or jumps to `to`.                   *)
(* "from" jumps to `to` when from() returns NULL.                          *)
(***************************************************************************)
Instr(op, ch, to, alloc) == [op |-> op, ch |-> ch, to |-> to, alloc |-> alloc]
ICreate(ch, alloc) == Instr("create", ch, 0, alloc) \* alloc: coroutine_create
IYield(ch)         == Instr("yield", ch, 0, FALSE)
IFrom(ch, onNull)  == Instr("from", ch, onNull, FALSE)
ISwitch(ch)        == Instr("switch", ch, 0, FALSE)
IClose(ch)         == Instr("close", ch, 0, FALSE)
ILoop(exit)        == Instr("loop", Root, exit, FALSE)
IGoto(to)          == Instr("goto", Root, to, FALSE)
IReturn            == Instr("return", Root, 0, FALSE)
IBranch(targets)   == Instr("branch", Root, targets, FALSE) \* go to any of targets

\* The coroutine that creates ch, read off the programs.
ParentOf(ch) ==
    CHOOSE p \in Coroutines :
        \E i \in DOMAIN Prog[p] : Prog[p][i].op = "create" /\ Prog[p][i].ch = ch

\* Whether ch is made by coroutine_create (TRUE) or in memory its parent gives.
AllocOf(ch) ==
    LET P == ParentOf(ch) IN
    Prog[P][CHOOSE i \in DOMAIN Prog[P] : Prog[P][i].op = "create" /\ Prog[P][i].ch = ch].alloc
=============================================================================
