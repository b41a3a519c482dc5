------------------------- MODULE DecoupleHandlers -------------------------
(***************************************************************************)
(* decouple_handlers_from_program_stack (Cortex-M): the program, running   *)
(* in privileged thread mode on the main stack pointer, moves its own      *)
(* stack to the process stack pointer (same address) and points the main   *)
(* stack pointer, which handlers always use, at a dedicated 4 KiB array.   *)
(* Afterwards an interrupt stacks only its exception frame on the          *)
(* program's (coroutine's) stack and runs its body on the handler stack.   *)
(*                                                                         *)
(* The inline assembly is a program of instruction records interpreted by  *)
(* Step.  Interrupts are the concurrent actor: one may be taken at any     *)
(* instruction boundary while PRIMASK is clear, and may nest.  Exception   *)
(* entry stacks a frame on the process stack if it interrupts thread mode  *)
(* with CONTROL.SPSEL set, else on the main stack; the handler body then   *)
(* uses HandlerUse bytes of the main stack.  Entry and return are context  *)
(* synchronisation events, and no instruction between the msr control and *)
(* the isb uses the stack, so the isb needs no state of its own.          *)
(***************************************************************************)
EXTENDS Naturals, Sequences, Bitwise, SequencesExt

CONSTANTS
    SP0,          \* the main stack pointer when main() calls the function
    HandlerBase,  \* address of handler_stack[4096] (aligned 16)
    Controls,     \* CONTROL values main() may run with (privileged, SPSEL 0)
    PspInit,      \* values PSP may hold at reset (UNKNOWN architecturally)
    ThreadUse,    \* bytes of the program's live stack at and above SP0
    HandlerUse,   \* bytes a handler body uses on the stack it runs on
    MaxIrq,       \* interrupts the model lets arrive
    MaxNest       \* how deeply interrupts may nest (priority levels)

VARIABLES
    pc,       \* next instruction of the asm block; Len(Decouple) + 1 when done
    reg,      \* reg.r0, reg.r1, and reg.top: the "r" input operand (%0)
    msp, psp, control, primask,
    active,   \* the exceptions being handled, innermost last
    irqs,     \* interrupts taken so far
    control0  \* CONTROL when main() called the function (history)

vars == <<pc, reg, msp, psp, control, primask, active, irqs, control0>>

HandlerTop == HandlerBase + 4096
SpselBit == 2
FpcaBit == 4

\* The frame exception entry stacks: 8 words, or 26 with the FP context.
FrameSize(ctl) == IF (ctl & FpcaBit) = FpcaBit THEN 104 ELSE 32

(***************************************************************************)
(* Instructions of the asm block: cpsid/cpsie i, mrs Rd, SR, msr SR, Rn,  *)
(* mov Rd, #imm, orr Rd, Rn, isb.                                          *)
(***************************************************************************)
I(op, d, s, imm) == [op |-> op, d |-> d, s |-> s, imm |-> imm]

\* Variant with msr control ahead of msr psp: the program moves onto PSP first.
DecoupleControlFirst ==
    << I("cpsid", "", "", 0), I("mrs", "r0", "control", 0), I("mov", "r1", "", 2),
       I("orr", "r0", "r1", 0), I("msr", "control", "r0", 0), I("isb", "", "", 0),
       I("mrs", "r0", "msp", 0), I("msr", "psp", "r0", 0),
       I("msr", "msp", "top", 0), I("cpsie", "", "", 0) >>

\* Variant that writes 2 to CONTROL instead of setting bit 1 of it.
DecoupleMovControl ==
    << I("cpsid", "", "", 0), I("mrs", "r0", "msp", 0), I("msr", "psp", "r0", 0),
       I("mov", "r0", "", 2), I("mov", "r1", "", 2),
       I("orr", "r0", "r1", 0), I("msr", "control", "r0", 0), I("isb", "", "", 0),
       I("msr", "msp", "top", 0), I("cpsie", "", "", 0) >>

Decouple ==
    << I("cpsid", "", "", 0), I("mrs", "r0", "msp", 0), I("msr", "psp", "r0", 0),
       I("mrs", "r0", "control", 0), I("mov", "r1", "", 2),
       I("orr", "r0", "r1", 0), I("msr", "control", "r0", 0), I("isb", "", "", 0),
       I("msr", "msp", "top", 0), I("cpsie", "", "", 0) >>

Done == pc = Len(Decouple) + 1

SysReg == [msp |-> msp, psp |-> psp, control |-> control]

Init ==
    /\ pc = 1
    /\ reg = [r0 |-> 0, r1 |-> 0, top |-> HandlerTop]
    /\ msp = SP0
    /\ psp \in PspInit
    /\ control \in Controls
    /\ control0 = control
    /\ primask = 0
    /\ active = <<>>
    /\ irqs = 0

(***************************************************************************)
(* The program executes its next instruction; only in thread mode, that is *)
(* with no exception active.                                               *)
(***************************************************************************)
Step ==
    LET ins == Decouple[pc] IN
    /\ ~Done
    /\ active = <<>>
    /\ pc' = pc + 1
    /\ primask' = CASE ins.op = "cpsid" -> 1
                    [] ins.op = "cpsie" -> 0
                    [] OTHER -> primask
    /\ reg' = CASE ins.op = "mrs" -> [reg EXCEPT ![ins.d] = SysReg[ins.s]]
                [] ins.op = "mov" -> [reg EXCEPT ![ins.d] = ins.imm]
                [] ins.op = "orr" -> [reg EXCEPT ![ins.d] = reg[ins.d] | reg[ins.s]]
                [] OTHER -> reg
    /\ msp' = IF ins.op = "msr" /\ ins.d = "msp" THEN reg[ins.s] ELSE msp
    /\ psp' = IF ins.op = "msr" /\ ins.d = "psp" THEN reg[ins.s] ELSE psp
    /\ control' = IF ins.op = "msr" /\ ins.d = "control" THEN reg[ins.s] ELSE control
    /\ UNCHANGED <<active, irqs, control0>>

(***************************************************************************)
(* Exception entry: stack the frame on PSP when thread mode with SPSEL set *)
(* is interrupted, otherwise on MSP; the body runs on MSP below it.        *)
(***************************************************************************)
IrqEntry ==
    /\ primask = 0
    /\ irqs < MaxIrq
    /\ Len(active) < MaxNest
    /\ LET onPsp  == active = <<>> /\ (control & SpselBit) = SpselBit
           frame  == (IF onPsp THEN psp ELSE msp) - FrameSize(control)
           body   == (IF onPsp THEN msp ELSE frame) - HandlerUse
       IN /\ active' = Append(active, [onPsp |-> onPsp, frame |-> frame,
                                        fsize |-> FrameSize(control), body |-> body])
          /\ psp' = IF onPsp THEN frame ELSE psp
          /\ msp' = body
    /\ irqs' = irqs + 1
    /\ UNCHANGED <<pc, reg, control, primask, control0>>

\* Exception return: the body's stack is dropped and the frame unstacked.
IrqReturn ==
    /\ active # <<>>
    /\ LET e == Last(active) IN
       /\ psp' = IF e.onPsp THEN e.frame + e.fsize ELSE psp
       /\ msp' = IF e.onPsp THEN e.body + HandlerUse ELSE e.frame + e.fsize
    /\ active' = Front(active)
    /\ UNCHANGED <<pc, reg, control, primask, irqs, control0>>

\* The function has returned; the program goes on without further interrupts.
Quiet ==
    /\ Done
    /\ active = <<>>
    /\ irqs = MaxIrq
    /\ UNCHANGED vars

Next == Step \/ IrqEntry \/ IrqReturn \/ Quiet

Spec == Init /\ [][Next]_vars

-----------------------------------------------------------------------------
\* The stack pointer thread-mode code uses.
ThreadSP == IF (control & SpselBit) = SpselBit THEN psp ELSE msp

(***************************************************************************)
(* The program's stack is not moved: whenever it runs (thread mode), the   *)
(* stack pointer it uses still equals the one it had on entry, both during *)
(* the asm block and after it, so its frame (and the function's epilogue)  *)
(* stays valid.                                                            *)
(***************************************************************************)
ThreadStackContinuity == active = <<>> => ThreadSP = SP0

(***************************************************************************)
(* The block sets CONTROL.SPSEL and nothing else: nPRIV (privilege) and    *)
(* FPCA (whether exceptions stack the FP context, and so how much room a   *)
(* frame takes) keep the values main() had, and once the block is done    *)
(* SPSEL is set.                                                           *)
(***************************************************************************)
ControlPreserved ==
    /\ (control & (FpcaBit + 1)) = (control0 & (FpcaBit + 1))
    /\ Done => (control & SpselBit) = SpselBit

\* The stack memory in use: the program's live frame, and each active
\* exception's frame and body.
InUse ==
    [i \in 1..(1 + 2 * Len(active)) |->
        IF i = 1 THEN [lo |-> SP0, hi |-> SP0 + ThreadUse]
        ELSE LET e == active[i \div 2] IN
             IF i % 2 = 0 THEN [lo |-> e.frame, hi |-> e.frame + e.fsize]
             ELSE [lo |-> e.body, hi |-> e.body + HandlerUse]]

Disjoint(x, y) == x.hi <= y.lo \/ y.hi <= x.lo

=============================================================================
